---- MODULE Spec2Model ----
(***************************************************************************)
(* Model of the Immich image cleaner: the rule-based detector              *)
(* (UnwantedImageDetector), the engine and batch worker of app.py, the     *)
(* HTTP handlers that share the asset_analysis table with the worker, and  *)
(* the ImmichCleaner object of immich_cleaner.py with its                  *)
(* cleanup_candidates table.                                               *)
(*                                                                         *)
(* Strings are sequences of one-character strings, so that substring and   *)
(* pattern tests are computed, character by character, as the code         *)
(* computes them.  Confidence scores are kept in hundredths (0.4 is 40).   *)
(***************************************************************************)
EXTENDS Integers, Sequences, FiniteSets, TLC

(***************************************************************************)
(* Python values as they arrive in the JSON of the remote server: a key    *)
(* may be absent, null, a string or a number.                              *)
(***************************************************************************)
Missing == [n |-> 0, s |-> <<>>, t |-> "missing"]

None == [n |-> 0, s |-> <<>>, t |-> "none"]

Str(chars) == [n |-> 0, s |-> chars, t |-> "str"]

Num(k) == [n |-> k, s |-> <<>>, t |-> "int"]

\* dict.get(key, default): the default only when the key is absent
Get(v, default) == IF v.t = "missing" THEN default ELSE v

\* dict.get(key): None when the key is absent
GetOrNone(v) == Get(v, None)

\* Python truthiness of a JSON value
Truthy(v) ==
  CASE v.t = "str" -> v.s # <<>>
    [] v.t = "int" -> v.n # 0
    [] OTHER -> FALSE

\* Python's `a or b`
Or(a, b) == IF Truthy(a) THEN a ELSE b

Min(a, b) == IF a <= b THEN a ELSE b

UpperToLower ==
  [c \in {"A","B","C","D","E","F","G","H","I","J","K","L","M","N","O","P","Q","R","S","T","U","V","W","X","Y","Z"} |->
     CASE c = "A" -> "a"
       [] c = "B" -> "b"
       [] c = "C" -> "c"
       [] c = "D" -> "d"
       [] c = "E" -> "e"
       [] c = "F" -> "f"
       [] c = "G" -> "g"
       [] c = "H" -> "h"
       [] c = "I" -> "i"
       [] c = "J" -> "j"
       [] c = "K" -> "k"
       [] c = "L" -> "l"
       [] c = "M" -> "m"
       [] c = "N" -> "n"
       [] c = "O" -> "o"
       [] c = "P" -> "p"
       [] c = "Q" -> "q"
       [] c = "R" -> "r"
       [] c = "S" -> "s"
       [] c = "T" -> "t"
       [] c = "U" -> "u"
       [] c = "V" -> "v"
       [] c = "W" -> "w"
       [] c = "X" -> "x"
       [] c = "Y" -> "y"
       [] c = "Z" -> "z"]

\* str.lower(), character by character
lower(chars) ==
  [i \in 1..Len(chars) |->
     IF chars[i] \in DOMAIN UpperToLower THEN UpperToLower[chars[i]] ELSE chars[i]]

\* Python's `needle in haystack` on strings
Contains(haystack, needle) ==
  \E i \in 1..(Len(haystack) - Len(needle) + 1) :
     SubSeq(haystack, i, i + Len(needle) - 1) = needle

\* pattern.replace('\\', ''): every backslash is dropped
replace_backslash(pattern) == SelectSeq(pattern, LAMBDA c : c # "\\")

\* Index of the first entry of a list that satisfies the test of a for/break
\* loop, 0 when the loop ends without a break
FirstIndex(hits) == IF hits = {} THEN 0 ELSE CHOOSE i \in hits : \A j \in hits : i <= j

(***************************************************************************)
(* UnwantedImageDetector.__init__: the pattern tables                      *)
(***************************************************************************)
screenshot_patterns ==
  <<
    <<"s","c","r","e","e","n","s","h","o","t">>,
    <<"s","c","r","e","e","n","_","s","h","o","t">>,
    <<"s","c","r","e","e","n"," ","s","h","o","t">>,
    <<"c","a","p","t","u","r","e">>,
    <<"s","n","a","p">>,
    <<"i","m","g","_","\\","d","{","4","}">>,
    <<"i","m","a","g","e","_","\\","d","{","4","}">>,
    <<"v","l","c","s","n","a","p">>,
    <<"s","n","a","p","s","h","o","t">>,
    <<"s","c","r","e","e","n","s","h","o","t","_","\\","d","{","8","}">>,
    <<"s","c","r","e","e","n","_","\\","d","{","8","}">>,
    <<"c","a","p","t","u","r","e","_","\\","d","{","8","}">>,
    <<"c","l","i","p","b","o","a","r","d">>,
    <<"p","r","t","s","c","r">>,
    <<"s","n","i","p">>,
    <<"w","e","b","p","a","g","e">>,
    <<"b","r","o","w","s","e","r">>,
    <<"t","a","b","_">>,
    <<"w","i","n","d","o","w","_">>
  >>

web_cache_patterns ==
  <<
    <<"c","a","c","h","e">>,
    <<"t","e","m","p">>,
    <<"t","m","p">>,
    <<"p","r","e","v","i","e","w">>,
    <<"t","h","u","m","b">>,
    <<"a","v","a","t","a","r">>,
    <<"p","r","o","f","i","l","e","_","p","i","c">>,
    <<"i","c","o","n">>,
    <<"f","a","v","i","c","o","n">>,
    <<"b","a","n","n","e","r">>,
    <<"h","e","a","d","e","r">>,
    <<"f","o","o","t","e","r">>,
    <<"w","i","d","g","e","t">>,
    <<"f","b","_">>,
    <<"t","w","i","t","t","e","r","_">>,
    <<"i","n","s","t","a","_">>,
    <<"s","n","a","p","_">>,
    <<"t","i","k","t","o","k","_">>,
    <<"a","d","v","e","r","t","i","s","e","m","e","n","t">>,
    <<"a","d","s","_">>,
    <<"p","r","o","m","o">>,
    <<"p","o","p","u","p">>
  >>

unwanted_keywords ==
  <<
    <<"t","e","m","p">>,
    <<"t","m","p">>,
    <<"c","a","c","h","e">>,
    <<"b","a","c","k","u","p">>,
    <<"c","o","p","y">>,
    <<"d","u","p","l","i","c","a","t","e">>,
    <<"u","n","t","i","t","l","e","d">>,
    <<"u","n","k","n","o","w","n">>,
    <<"r","e","c","o","v","e","r","e","d">>,
    <<"r","e","s","t","o","r","e","d">>
  >>

unwanted_dirs ==
  <<
    <<"t","e","m","p">>,
    <<"t","m","p">>,
    <<"c","a","c","h","e">>,
    <<"t","h","u","m","b","n","a","i","l","s">>,
    <<"t","h","u","m","b","s">>,
    <<"p","r","e","v","i","e","w">>,
    <<"d","o","w","n","l","o","a","d","s">>,
    <<"s","c","r","e","e","n","s","h","o","t","s">>,
    <<"c","a","p","t","u","r","e","s">>,
    <<"b","r","o","w","s","e","r">>,
    <<"c","h","r","o","m","e">>,
    <<"f","i","r","e","f","o","x">>,
    <<"s","a","f","a","r","i">>,
    <<"e","d","g","e">>,
    <<"r","e","c","y","c","l","e">>,
    <<"t","r","a","s","h">>,
    <<"d","e","l","e","t","e","d">>
  >>

screenshot_software ==
  <<
    <<"a","n","d","r","o","i","d">>,
    <<"i","o","s">>,
    <<"w","i","n","d","o","w","s">>,
    <<"m","a","c","o","s">>,
    <<"l","i","n","u","x">>,
    <<"s","c","r","e","e","n","s","h","o","t">>,
    <<"s","n","i","p","p","i","n","g">>,
    <<"c","a","p","t","u","r","e">>,
    <<"p","a","i","n","t">>,
    <<"p","h","o","t","o","s","h","o","p">>,
    <<"g","i","m","p">>,
    <<"c","a","n","v","a">>,
    <<"f","i","g","m","a">>
  >>

low_quality_indicators == << <<100, 100>>, <<150, 150>>, <<200, 200>> >>

screenshot_resolutions ==
  { <<1920, 1080>>, <<1366, 768>>, <<1280, 720>>, <<1024, 768>>,
    <<1440, 900>>, <<1600, 900>>, <<1680, 1050>>, <<1920, 1200>>,
    <<414, 896>>, <<375, 667>>, <<360, 640>>, <<320, 568>>,
    <<411, 731>>, <<393, 851>>, <<428, 926>>,
    <<768, 1024>>, <<1024, 1366>>, <<820, 1180>> }

\* file-size limits of the detector, in bytes
SmallFileSize == 10000

LargeFileSize == 50000000

ImageAnalysisCeiling == 10000000

\* UI-element threshold of the thumbnail inspection
UiElementThreshold == 10

(***************************************************************************)
(* The analysis_result dict.  `raised` models an exception propagating out *)
(* of an inspection step to the except clause of analyze_image.            *)
(***************************************************************************)
Flag(flag, info) == [flag |-> flag, info |-> info]

AddFlag(result, flag, info) ==
  [result EXCEPT !.flags = Append(@, Flag(flag, info))]

Raise(result) == [result EXCEPT !.raised = TRUE]

\* analyze_image, lines 180-197: the dict the inspections fill in
NewResult(asset_id, asset_info) ==
  [asset_id |-> asset_id,
   filename |-> Get(asset_info.originalFileName, Str(<<>>)),
   file_path |-> Get(asset_info.originalPath, Str(<<>>)),
   file_size |-> Get(asset_info.originalSize, Num(0)),
   width |-> None,
   height |-> None,
   is_screenshot |-> FALSE,
   is_web_cache |-> FALSE,
   is_low_quality |-> FALSE,
   is_duplicate |-> FALSE,
   is_corrupt |-> FALSE,
   confidence_score |-> 0,
   flags |-> <<>>,
   recommendations |-> <<>>,
   has_faces |-> FALSE,
   face_count |-> 0,
   inspected_thumbnail |-> FALSE,
   raised |-> FALSE,
   error |-> FALSE]

\* analyze_image, lines 203-207
record_faces(result, face_count) ==
  IF face_count > 0
  THEN AddFlag([result EXCEPT !.has_faces = TRUE, !.face_count = face_count],
               "Immich detected faces", <<face_count>>)
  ELSE result

_analyze_filename(result) ==
  IF result.filename.t # "str" THEN Raise(result)
  ELSE
    LET filename == lower(result.filename.s)
        shot == FirstIndex({i \in 1..Len(screenshot_patterns) :
                   Contains(filename, replace_backslash(screenshot_patterns[i]))})
        web == FirstIndex({i \in 1..Len(web_cache_patterns) :
                   Contains(filename, replace_backslash(web_cache_patterns[i]))})
        r1 == IF shot = 0 THEN result
              ELSE AddFlag([result EXCEPT !.is_screenshot = TRUE],
                           "Screenshot pattern", screenshot_patterns[shot])
        r2 == IF web = 0 THEN r1
              ELSE AddFlag([r1 EXCEPT !.is_web_cache = TRUE],
                           "Web cache pattern", web_cache_patterns[web])
        keywords == SelectSeq(unwanted_keywords, LAMBDA k : Contains(filename, k))
    IN  [r2 EXCEPT !.flags =
           @ \o [i \in 1..Len(keywords) |-> Flag("Unwanted keyword", keywords[i])]]

_analyze_file_path(result) ==
  IF result.file_path.t # "str" THEN Raise(result)
  ELSE
    LET file_path == lower(result.file_path.s)
        dirs == SelectSeq(unwanted_dirs, LAMBDA d : Contains(file_path, d))
    IN  [result EXCEPT !.flags =
           @ \o [i \in 1..Len(dirs) |-> Flag("Unwanted directory", dirs[i])]]

\* lines 290-312: the block entered when both dimensions are known
check_dimensions(result, width, height) ==
  LET r0 == [result EXCEPT !.width = Num(width), !.height = Num(height)]
      small == \E i \in 1..Len(low_quality_indicators) :
                  /\ width <= low_quality_indicators[i][1]
                  /\ height <= low_quality_indicators[i][2]
      r1 == IF small
            THEN AddFlag([r0 EXCEPT !.is_low_quality = TRUE], "Small size", <<width, height>>)
            ELSE r0
      r2 == IF <<width, height>> \in screenshot_resolutions
            THEN AddFlag([r1 EXCEPT !.is_screenshot = TRUE],
                         "Screenshot resolution", <<width, height>>)
            ELSE r1
  IN  \* width / height > 5 or width / height < 0.2
      IF width > 5 * height \/ 5 * width < height
      THEN AddFlag(r2, "Unusual aspect ratio", <<width, height>>)
      ELSE r2

_analyze_asset_metadata(result, asset_info) ==
  IF asset_info.exifInfo.t = "none" THEN Raise(result)
  ELSE
    LET exif_info == asset_info.exifInfo.d
        width == Or(GetOrNone(exif_info.imageWidth), GetOrNone(exif_info.exifImageWidth))
        height == Or(GetOrNone(exif_info.imageHeight), GetOrNone(exif_info.exifImageHeight))
        r1 == IF Truthy(width) /\ Truthy(height)
              THEN check_dimensions(result, width.n, height.n)
              ELSE result
        file_size == result.file_size
    IN  IF file_size.t # "int" THEN Raise(r1)
        ELSE IF file_size.n < SmallFileSize
        THEN AddFlag([r1 EXCEPT !.is_low_quality = TRUE], "Very small file size", <<>>)
        ELSE IF file_size.n > LargeFileSize
        THEN AddFlag(r1, "Unusually large file", <<>>)
        ELSE r1

_analyze_exif_data(result, asset_info) ==
  IF asset_info.exifInfo.t = "none" THEN Raise(result)
  ELSE
    LET exif_info == asset_info.exifInfo.d
        r1 == IF ~Truthy(GetOrNone(exif_info.make)) /\ ~Truthy(GetOrNone(exif_info.model))
              THEN AddFlag(result, "No camera information", <<>>)
              ELSE result
        software_value == Get(exif_info.software, Str(<<>>))
    IN  IF software_value.t # "str" THEN Raise(r1)
        ELSE
          LET software == lower(software_value.s)
              r2 == IF \E i \in 1..Len(screenshot_software) :
                         Contains(software, screenshot_software[i])
                    THEN AddFlag([r1 EXCEPT !.is_screenshot = TRUE],
                                 "Screenshot software", software)
                    ELSE r1
          IN  IF /\ ~Truthy(GetOrNone(asset_info.fileCreatedAt))
                 /\ ~Truthy(GetOrNone(exif_info.dateTimeOriginal))
              THEN AddFlag(r2, "Missing creation date", <<>>)
              ELSE r2

(***************************************************************************)
(* The thumbnail inspection.  `thumb` is what the remote server and the    *)
(* image library answer for the asset: the download fails, writing the     *)
(* temporary file raises, the image cannot be decoded, or it decodes with  *)
(* a number of detected lines and a uniformity verdict.                    *)
(***************************************************************************)
_analyze_image_content_lightweight(result, thumb) ==
  LET r0 == [result EXCEPT !.inspected_thumbnail = TRUE]
  IN  CASE thumb.outcome = "download_failed" ->
             AddFlag(r0, "Could not download for analysis", <<>>)
        [] thumb.outcome = "raises" ->
             AddFlag(r0, "Content analysis failed", <<>>)
        [] thumb.outcome = "unreadable" ->
             AddFlag([r0 EXCEPT !.is_corrupt = TRUE], "Cannot read image file", <<>>)
        [] OTHER ->
             LET r1 == IF thumb.ui_elements > UiElementThreshold
                       THEN AddFlag([r0 EXCEPT !.is_screenshot = TRUE],
                                    "UI elements detected in thumbnail", <<thumb.ui_elements>>)
                       ELSE r0
             IN  IF thumb.uniform
                 THEN AddFlag(r1, "Mostly uniform color (possible generated image)", <<>>)
                 ELSE r1

\* _calculate_confidence without min(confidence, 1.0)
_calculate_confidence_uncapped(result) ==
  [result EXCEPT !.confidence_score =
     (IF result.is_screenshot THEN 40 ELSE 0)
     + (IF result.is_web_cache THEN 30 ELSE 0)
     + (IF result.is_low_quality THEN 20 ELSE 0)
     + (IF result.is_corrupt THEN 50 ELSE 0)
     + Min(Len(result.flags) * 5, 30)
     + (IF result.file_size.n < SmallFileSize THEN 10
        ELSE IF result.file_size.n > LargeFileSize THEN 5 ELSE 0)]

\* _calculate_confidence with a flag score that is not capped at 0.3
_calculate_confidence_per_flag(result) ==
  [result EXCEPT !.confidence_score =
     Min((IF result.is_screenshot THEN 40 ELSE 0)
         + (IF result.is_web_cache THEN 30 ELSE 0)
         + (IF result.is_low_quality THEN 20 ELSE 0)
         + (IF result.is_corrupt THEN 50 ELSE 0)
         + Len(result.flags) * 5
         + (IF result.file_size.n < SmallFileSize THEN 10
            ELSE IF result.file_size.n > LargeFileSize THEN 5 ELSE 0), 100)]

\* confidence in hundredths; min(confidence, 1.0) is Min(confidence, 100)
_calculate_confidence(result) ==
  LET strong == (IF result.is_screenshot THEN 40 ELSE 0)
              + (IF result.is_web_cache THEN 30 ELSE 0)
              + (IF result.is_low_quality THEN 20 ELSE 0)
              + (IF result.is_corrupt THEN 50 ELSE 0)
      flag_score == Min(Len(result.flags) * 5, 30)
      size_score == IF result.file_size.n < SmallFileSize THEN 10
                    ELSE IF result.file_size.n > LargeFileSize THEN 5
                    ELSE 0
  IN  [result EXCEPT !.confidence_score = Min(strong + flag_score + size_score, 100)]

_generate_recommendations(result) ==
  LET first == IF result.confidence_score > 80 THEN "Strongly recommend deletion"
               ELSE IF result.confidence_score > 60 THEN "Consider for removal"
               ELSE IF result.confidence_score > 40 THEN "Manual review recommended"
               ELSE "Likely keep"
  IN  [result EXCEPT !.recommendations =
         <<first>>
         \o (IF result.is_screenshot THEN <<"Move to screenshots album or delete">> ELSE <<>>)
         \o (IF result.is_web_cache THEN <<"Web artifact - safe to delete">> ELSE <<>>)
         \o (IF result.is_low_quality THEN <<"Check if higher quality version exists">> ELSE <<>>)
         \o (IF result.is_corrupt THEN <<"Corrupted file - delete">> ELSE <<>>)]

\* the dict analyze_image returns from its except clause
ErrorResult(asset_id) ==
  [NewResult(asset_id, [originalFileName |-> Missing, originalPath |-> Missing,
                        originalSize |-> Missing])
     EXCEPT !.error = TRUE]

\* needs_image_analysis of a detector that inspects every thumbnail
needs_image_analysis_always(result) == TRUE

\* lines 216-223: whether the thumbnail is inspected
needs_image_analysis(result) ==
  result.is_screenshot \/ result.is_web_cache \/ ~result.has_faces

\* UnwantedImageDetector.analyze_image: `faces` is the length of the list
\* get_faces_for_asset returns, `thumb` the outcome of the thumbnail steps
analyze_image(asset_id, asset_info, faces, thumb) ==
  LET r0 == record_faces(NewResult(asset_id, asset_info), faces)
      r1 == _analyze_filename(r0)
      r2 == IF r1.raised THEN r1 ELSE _analyze_file_path(r1)
      r3 == IF r2.raised THEN r2 ELSE _analyze_asset_metadata(r2, asset_info)
      r4 == IF r3.raised THEN r3 ELSE _analyze_exif_data(r3, asset_info)
      r5 == IF r4.raised THEN r4
            ELSE IF needs_image_analysis(r4) /\ r4.file_size.n < ImageAnalysisCeiling
            THEN _analyze_image_content_lightweight(r4, thumb)
            ELSE r4
  IN  IF r5.raised THEN ErrorResult(asset_id)
      ELSE _generate_recommendations(_calculate_confidence(r5))

(***************************************************************************)
(* Sample metadata of the remote library                                   *)
(***************************************************************************)
ScreenshotName == <<"S","c","r","e","e","n","s","h","o","t","_","2","0","2","3","0","1","0","1","-","1","2","0","0","0","0",".","p","n","g">>

CameraName == <<"I","M","G","_","4","3","2","1",".","h","e","i","c">>

WebCacheName == <<"t","m","p","_","c","a","c","h","e","_","t","h","u","m","b",".","j","p","g">>

PhotosPath == <<"/","p","h","o","t","o","s","/","2","0","2","3","/">>

CachePath == <<"/","t","m","p","/","c","a","c","h","e","/">>

Apple == <<"A","p","p","l","e">>

IPhone == <<"i","P","h","o","n","e"," ","1","5">>

Ios172 == <<"1","7",".","2">>

Android13 == <<"A","n","d","r","o","i","d"," ","1","3">>

Date2023 == <<"2","0","2","3","-","0","1","-","0","1">>

\* the keys of exifInfo the detector reads
ExifFields(w, h, make, model, software, date) ==
  [imageWidth |-> w, exifImageWidth |-> Missing,
   imageHeight |-> h, exifImageHeight |-> Missing,
   make |-> make, model |-> model, software |-> software, dateTimeOriginal |-> date]

NoExifFields == ExifFields(Missing, Missing, Missing, Missing, Missing, Missing)

\* exifInfo: a dict, null, or absent (asset_info.get('exifInfo', {}) is then {})
ExifDict(fields) == [d |-> fields, t |-> "dict"]

ExifNone == [d |-> NoExifFields, t |-> "none"]

ExifMissing == [d |-> NoExifFields, t |-> "missing"]

AssetInfo(name, path, size, exif, created) ==
  [originalFileName |-> name, originalPath |-> path, originalSize |-> size,
   exifInfo |-> exif, fileCreatedAt |-> created]

Thumb(outcome, ui_elements, uniform) ==
  [outcome |-> outcome, ui_elements |-> ui_elements, uniform |-> uniform]

PlainThumb == Thumb("decoded", 3, FALSE)

(***************************************************************************)
(* The remote Immich server: the asset listing served page by page, and    *)
(* per asset the metadata, the detected faces and the thumbnail.  One      *)
(* listing entry carries no id; the metadata of a3 has a null exifInfo.    *)
(***************************************************************************)
AssetIds == {"a1", "a2", "a3"}

RemoteListing == << [id |-> "a1"], [id |-> ""], [id |-> "a2"], [id |-> "a3"] >>

RemoteAssetInfo ==
  [id \in AssetIds |->
     CASE id = "a1" ->
            AssetInfo(Str(ScreenshotName), Str(PhotosPath), Num(250000),
                      ExifDict(ExifFields(Num(1080), Num(1920), Missing, Missing, Missing, Missing)),
                      Str(Date2023))
       [] id = "a2" ->
            AssetInfo(Str(CameraName), Str(PhotosPath), Num(2500000),
                      ExifDict(ExifFields(Num(4032), Num(3024), Str(Apple), Str(IPhone),
                                          Str(Ios172), Str(Date2023))),
                      Str(Date2023))
       [] OTHER ->
            AssetInfo(Str(CameraName), Str(PhotosPath), Num(2500000), ExifNone, Str(Date2023))]

RemoteFaces == [id \in AssetIds |-> 0]

RemoteThumb == [id \in AssetIds |-> PlainThumb]

\* number of assets the worker asks for per listing call
PageSize == 2

\* highest page number the model tells apart; the listing ends before it
MaxPage == 4

\* ImmichAPIClient.get_assets when the request succeeds: the page-th slice
get_assets(page, size) ==
  SubSeq(RemoteListing, (page - 1) * size + 1, Min(page * size, Len(RemoteListing)))

(***************************************************************************)
(* State                                                                   *)
(***************************************************************************)
\* longest asset_ids list of a mark request
MaxMarkIds == 1

\* the thread slots the model follows: start_analysis itself sets no limit, a
\* finished thread's slot is free again
Workers == {"t1", "t2"}

VARIABLES
  cleaner_engine,      \* app.py: whether the global engine (and client) is set
  workers,             \* app.py: the run_batch_analysis threads
  asset_analysis,      \* app.py: the asset_analysis table, asset_id -> row
  response,            \* app.py: the last HTTP response
  cleanup_candidates,  \* immich_cleaner.py: the cleanup_candidates table
  cleaner_call,        \* immich_cleaner.py: the last method call and what it returned
  classify_input,      \* detector: the asset handed to analyze_image
  classify_output,     \* detector: what analyze_image returned for it
  confidence_call      \* detector: a result dict before and after _calculate_confidence

appVars == <<cleaner_engine, workers, asset_analysis, response>>

cleanerVars == <<cleanup_candidates, cleaner_call>>

classifyVars == <<classify_input, classify_output, confidence_call>>

vars == <<cleaner_engine, workers, asset_analysis, response,
          cleanup_candidates, cleaner_call, classify_input, classify_output,
          confidence_call>>

\* a thread slot: the locals of run_batch_analysis, the last analysis_status it
\* emitted, and what happened to the run (history, read by the properties only)
IdleWorker ==
  [pc |-> "idle", page |-> 0, assets |-> <<>>, idx |-> 0, total_processed |-> 0,
   status |-> "none", fetch_failed |-> FALSE,
   due |-> <<>>, info_failed |-> {}, classified |-> <<>>]

Active(w) == workers[w].pc \notin {"idle", "done"}

\* the answer to the last HTTP request; mid_page names the runs that were
\* processing a page when it was answered (history, kept for stop requests)
Response(op, code, count) ==
  [op |-> op, code |-> code, count |-> count, mid_page |-> {}]

\* the dict get_statistics returns, before any call of it
NoStats ==
  [total_analyzed |-> 0, screenshots_found |-> 0, web_files_found |-> 0,
   recovery_artifacts_found |-> 0, marked_for_deletion |-> 0]

\* the asset dict of a call that takes none
NoAsset == [id |-> "", originalFileName |-> Missing, exifInfo |-> [d |-> [fileSizeInByte |-> Missing], t |-> "missing"]]

NoCall ==
  [op |-> "none", ids |-> <<>>, returned |-> TRUE, stats |-> NoStats, asset |-> NoAsset,
   script |-> <<>>]

NoInput ==
  [info |-> AssetInfo(Missing, Missing, Missing, ExifMissing, Missing),
   faces |-> 0, thumb |-> PlainThumb]

\* a result dict on which _calculate_confidence has not been called
ConfidenceCall(result) == [input |-> result, output |-> << >>]

NoConfidenceCall == ConfidenceCall(NewResult("x", NoInput.info))

(***************************************************************************)
(* ImageCleanerEngine                                                      *)
(***************************************************************************)
\* the columns _save_analysis_result writes; marked_for_deletion is not among
\* them, so INSERT OR REPLACE gives the new row the column default 0
Row(result) ==
  [confidence_score |-> result.confidence_score,
   is_screenshot |-> result.is_screenshot,
   is_web_cache |-> result.is_web_cache,
   is_low_quality |-> result.is_low_quality,
   is_corrupt |-> result.is_corrupt,
   has_faces |-> result.has_faces,
   status |-> "analyzed",
   marked_for_deletion |-> FALSE]

\* INSERT OR REPLACE INTO asset_analysis; a failing write is logged and dropped
_save_analysis_result(table, result, write_ok) ==
  IF ~write_ok THEN table
  ELSE [id \in DOMAIN table \cup {result.asset_id} |->
          IF id = result.asset_id THEN Row(result) ELSE table[id]]

\* what the detector returns for each asset of the library
Verdict == [id \in AssetIds |-> analyze_image(id, RemoteAssetInfo[id], RemoteFaces[id], RemoteThumb[id])]

\* analyze_asset returning an empty verdict, not an error, for an asset
\* whose metadata could not be fetched
analyze_asset_empty_verdict(asset_id, info_ok) ==
  IF ~info_ok THEN [ErrorResult(asset_id) EXCEPT !.error = FALSE] ELSE Verdict[asset_id]

\* ImageCleanerEngine.analyze_asset: the result dict; info_ok is whether
\* get_asset_info got the metadata
analyze_asset(asset_id, info_ok) ==
  IF ~info_ok THEN ErrorResult(asset_id) ELSE Verdict[asset_id]

\* save_unless_error without the test of the 'error' key
save_always(table, result, write_ok) ==
  _save_analysis_result(table, result, write_ok)

\* lines 547-548: only a result without 'error' is saved
save_unless_error(table, result, write_ok) ==
  IF result.error THEN table ELSE _save_analysis_result(table, result, write_ok)

\* the table after analyze_asset
table_after_analyze(table, asset_id, info_ok, write_ok) ==
  save_unless_error(table, analyze_asset(asset_id, info_ok), write_ok)

(***************************************************************************)
(* HTTP handlers of app.py                                                 *)
(***************************************************************************)
\* What a configuration request with an immich_url and an api_key carries.
\* "valid": the address and key of a server that answers.  "unreachable": an
\* address no server answers at, or that is no URL.  "bad_key": a key the
\* server refuses (401).
ConfigRequests == {"valid", "unreachable", "bad_key"}

\* POST /api/config.  The test request raises for an unreachable address,
\* and raise_for_status for a refused key, inside the try of get_assets, which
\* returns [] for both; the handler does not look at the list returned, so it
\* installs the client and the engine and answers 200 whatever the request
\* carries.  (Its except clause is reached only from outside get_assets: a
\* request without immich_url, or a config.json that cannot be written.)
config_request(request) ==
  /\ cleaner_engine' = TRUE
  /\ response' = Response("config", 200, 0)
  /\ UNCHANGED <<workers, asset_analysis>>
  /\ UNCHANGED <<cleanerVars, classifyVars>>

config == \E request \in ConfigRequests : config_request(request)

\* the slot a new thread takes
FreeSlot(w) == ~Active(w) /\ w = CHOOSE v \in Workers : ~Active(v)

\* start_analysis without the test of cleaner_engine
start_analysis_unconfigured ==
  /\ \E w \in Workers :
        /\ FreeSlot(w)
        /\ workers' = [workers EXCEPT ![w] = [IdleWorker EXCEPT !.pc = "spawned"]]
  /\ response' = Response("start", 200, 0)
  /\ UNCHANGED <<cleaner_engine, asset_analysis>>
  /\ UNCHANGED <<cleanerVars, classifyVars>>

\* start_analysis with a guard that also refuses once a run has finished
start_analysis_once ==
  /\ IF ~cleaner_engine \/ \E w \in Workers : workers[w].pc = "done"
     THEN /\ response' = Response("start", 400, 0)
          /\ UNCHANGED workers
     ELSE /\ \E w \in Workers :
               /\ FreeSlot(w)
               /\ workers' = [workers EXCEPT ![w] = [IdleWorker EXCEPT !.pc = "spawned"]]
          /\ response' = Response("start", 200, 0)
  /\ UNCHANGED <<cleaner_engine, asset_analysis>>
  /\ UNCHANGED <<cleanerVars, classifyVars>>

\* POST /api/analyze/start
start_analysis ==
  /\ IF ~cleaner_engine
     THEN /\ response' = Response("start", 400, 0)
          /\ UNCHANGED workers
     ELSE /\ \E w \in Workers :
               /\ FreeSlot(w)
               /\ workers' = [workers EXCEPT ![w] = [IdleWorker EXCEPT !.pc = "spawned"]]
          /\ response' = Response("start", 200, 0)
  /\ UNCHANGED <<cleaner_engine, asset_analysis>>
  /\ UNCHANGED <<cleanerVars, classifyVars>>

\* UPDATE asset_analysis SET marked_for_deletion = 1 WHERE asset_id = ?
mark_rows(table, asset_ids) ==
  [id \in DOMAIN table |->
     IF \E i \in 1..Len(asset_ids) : asset_ids[i] = id
     THEN [table[id] EXCEPT !.marked_for_deletion = TRUE]
     ELSE table[id]]

\* ids a mark request names: a listed asset and an id the table never holds
MarkIds == {"a1", "zz"}

MarkRequests == UNION {[1..n -> MarkIds] : n \in 1..MaxMarkIds}

\* POST /api/mark_for_deletion; without an engine cleaner_engine.db_path raises
\* and the handler answers 500
mark_for_deletion(asset_ids) ==
  /\ IF ~cleaner_engine
     THEN /\ response' = Response("mark", 500, 0)
          /\ UNCHANGED asset_analysis
     ELSE /\ asset_analysis' = mark_rows(asset_analysis, asset_ids)
          /\ response' = Response("mark", 200, Len(asset_ids))
  /\ UNCHANGED <<cleaner_engine, workers>>
  /\ UNCHANGED <<cleanerVars, classifyVars>>

\* A stop request: app.py registers no stop route, so the request is answered
\* 404 and touches nothing a worker reads.
stop_request ==
  /\ response' = [Response("stop", 404, 0) EXCEPT
                     !.mid_page = {w \in Workers : workers[w].pc \in {"check", "analyze"}}]
  /\ UNCHANGED <<cleaner_engine, workers, asset_analysis>>
  /\ UNCHANGED <<cleanerVars, classifyVars>>

(***************************************************************************)
(* run_batch_analysis, one thread per accepted start request               *)
(***************************************************************************)
\* Finish of a run that returns without its last analysis_status event
Finish_silent(worker, status) == [worker EXCEPT !.pc = "done"]

Finish(worker, status) == [worker EXCEPT !.pc = "done", !.status = status]

\* lines 655-661: emit 'starting', page = 1, total_processed = 0
run_batch_start(w) ==
  /\ workers[w].pc = "spawned"
  /\ workers' = [workers EXCEPT ![w] =
        [@ EXCEPT !.pc = "fetch", !.status = "starting", !.page = 1, !.total_processed = 0]]
  /\ UNCHANGED <<cleaner_engine, asset_analysis, response>>
  /\ UNCHANGED <<cleanerVars, classifyVars>>

\* What the listing call gives the loop.  "page": the server's page.
\* "failed": the request raised, get_assets logged it and returned [].
\* "scalar": the body was JSON but no list (a truthy number), which the
\* for statement cannot iterate.
FetchOutcomes == {"page", "failed", "scalar"}

\* The listing call against a source that pages by cursor.  get_assets sends
\* page and size and nothing the source returned, so such a source answers
\* with the start of its listing ("first_page") whenever the request succeeds.
CursorOutcomes == {"first_page", "failed"}

\* the worker after lines 664-666 and the `for` header
after_fetch(worker, outcome) ==
  LET assets == IF outcome = "page" THEN get_assets(worker.page, PageSize)
                ELSE IF outcome = "first_page" THEN get_assets(1, PageSize)
                ELSE <<>>
      seen == [worker EXCEPT !.fetch_failed = @ \/ (outcome = "failed")]
  IN  IF outcome = "scalar" THEN Finish(seen, "error")
      ELSE IF assets = <<>> THEN Finish(seen, "completed")
      ELSE [seen EXCEPT !.pc = "check", !.assets = assets, !.idx = 1]

run_batch_fetch(w) ==
  /\ workers[w].pc = "fetch"
  /\ \E outcome \in FetchOutcomes :
        workers' = [workers EXCEPT ![w] = after_fetch(@, outcome)]
  /\ UNCHANGED <<cleaner_engine, asset_analysis, response>>
  /\ UNCHANGED <<cleanerVars, classifyVars>>

run_batch_fetch_cursor(w) ==
  /\ workers[w].pc = "fetch"
  /\ \E outcome \in CursorOutcomes :
        workers' = [workers EXCEPT ![w] = after_fetch(@, outcome)]
  /\ UNCHANGED <<cleaner_engine, asset_analysis, response>>
  /\ UNCHANGED <<cleanerVars, classifyVars>>

\* next_asset with `page += 1` lost: the loop asks for the same page again
next_asset_same_page(worker) ==
  IF worker.idx < Len(worker.assets)
  THEN [worker EXCEPT !.pc = "check", !.idx = @ + 1]
  ELSE [worker EXCEPT !.pc = "fetch", !.idx = 0, !.assets = <<>>]

\* next_asset with the loop bound off by one: the last asset of a page is not visited
next_asset_short_page(worker) ==
  IF worker.idx + 1 < Len(worker.assets)
  THEN [worker EXCEPT !.pc = "check", !.idx = @ + 1]
  ELSE [worker EXCEPT !.pc = "fetch", !.page = @ + 1, !.idx = 0, !.assets = <<>>]

\* the end of one pass of the for loop: the next asset, or page += 1 (page
\* numbers from MaxPage on, all past the end of the listing, are not told apart)
next_asset(worker) ==
  IF worker.idx < Len(worker.assets)
  THEN [worker EXCEPT !.pc = "check", !.idx = @ + 1]
  ELSE [worker EXCEPT !.pc = "fetch", !.page = Min(@ + 1, MaxPage), !.idx = 0,
                      !.assets = <<>>]

\* already_analyzed of a variant that analyses every listed asset again
never_skipped(table, asset_id) == FALSE

\* lines 681-682: the row exists and its status is 'analyzed'
already_analyzed(table, asset_id) ==
  asset_id \in DOMAIN table /\ table[asset_id].status = "analyzed"

\* lines 670-682: the id test and the SELECT
run_batch_check(w) ==
  /\ workers[w].pc = "check"
  /\ LET worker == workers[w]
         asset_id == worker.assets[worker.idx].id
     IN  workers' = [workers EXCEPT ![w] =
            IF asset_id = "" \/ already_analyzed(asset_analysis, asset_id)
            THEN next_asset(worker)
            ELSE [worker EXCEPT !.pc = "analyze", !.due = Append(@, asset_id)]]
  /\ UNCHANGED <<cleaner_engine, asset_analysis, response>>
  /\ UNCHANGED <<cleanerVars, classifyVars>>

\* analyze_step of a worker that a failed write sends to the handler of the
\* outer try: the run ends with status 'error'
analyze_step_write_fatal(w, info_ok, write_ok) ==
  LET worker == workers[w]
      asset_id == worker.assets[worker.idx].id
      counted == [worker EXCEPT
                    !.total_processed = @ + 1,
                    !.info_failed = IF info_ok THEN @ ELSE @ \cup {asset_id},
                    !.classified = IF info_ok THEN Append(@, asset_id) ELSE @]
  IN  /\ asset_analysis' = table_after_analyze(asset_analysis, asset_id, info_ok, write_ok)
      /\ workers' = [workers EXCEPT ![w] =
            IF write_ok THEN next_asset(counted) ELSE Finish(counted, "error")]

\* lines 685-696: analyze_asset, the counter and the progress event
analyze_step(w, info_ok, write_ok) ==
  LET worker == workers[w]
      asset_id == worker.assets[worker.idx].id
  IN  /\ asset_analysis' = table_after_analyze(asset_analysis, asset_id, info_ok, write_ok)
      /\ workers' = [workers EXCEPT ![w] =
            next_asset([worker EXCEPT
               !.total_processed = @ + 1,
               !.info_failed = IF info_ok THEN @ ELSE @ \cup {asset_id},
               !.classified = IF info_ok THEN Append(@, asset_id) ELSE @])]

run_batch_analyze(w) ==
  /\ workers[w].pc = "analyze"
  /\ \E info_ok \in BOOLEAN, write_ok \in BOOLEAN : analyze_step(w, info_ok, write_ok)
  /\ UNCHANGED <<cleaner_engine, response>>
  /\ UNCHANGED <<cleanerVars, classifyVars>>

\* run_batch_analyze when the metadata fetch and the write succeed
run_batch_analyze_ok(w) ==
  /\ workers[w].pc = "analyze"
  /\ analyze_step(w, TRUE, TRUE)
  /\ UNCHANGED <<cleaner_engine, response>>
  /\ UNCHANGED <<cleanerVars, classifyVars>>

WorkerStep(w) ==
  \/ run_batch_start(w)
  \/ run_batch_fetch(w)
  \/ run_batch_check(w)
  \/ run_batch_analyze(w)

(***************************************************************************)
(* immich_cleaner.py, class ImmichCleaner.  The filename patterns are      *)
(* regular expressions made of single characters and character classes,    *)
(* each with a repetition range, between optional ^ and $ anchors; a       *)
(* pattern keeps its source text (the stored detection_reason names it)    *)
(* next to its items.  In the file as committed the text following two     *)
(* patterns that end in $ (\.webp$ and ^img_\d{4}$) is overwritten by a    *)
(* copy of the rest of the file; the lists below are the lists of          *)
(* analyze_asset with those two patterns read as written before the copy.  *)
(***************************************************************************)
Digits == {"0","1","2","3","4","5","6","7","8","9"}

Whitespace == {" ", "\t", "\n", "\r"}

\* one pattern item: a character class repeated lo..hi times (hi = -1: no limit)
Item(chars, lo, hi) == [chars |-> chars, lo |-> lo, hi |-> hi]

Pattern(source, at_start, at_end, items) ==
  [source |-> source, at_start |-> at_start, at_end |-> at_end, items |-> items]

\* length of the longest run of characters of `chars` in text from position pos
RECURSIVE RunLength(_, _, _)
RunLength(text, pos, chars) ==
  IF pos <= Len(text) /\ text[pos] \in chars
  THEN 1 + RunLength(text, pos + 1, chars)
  ELSE 0

\* the positions at which a match of items[k..] that starts at pos can end
RECURSIVE MatchEnds(_, _, _, _)
MatchEnds(items, k, text, pos) ==
  IF k > Len(items) THEN {pos}
  ELSE LET item == items[k]
           run == RunLength(text, pos, item.chars)
           most == IF item.hi = -1 THEN run ELSE Min(run, item.hi)
       IN  UNION {MatchEnds(items, k + 1, text, pos + n) : n \in item.lo..most}

\* re.search(pattern, text)
re_search(pattern, text) ==
  \E start \in (IF pattern.at_start THEN {1} ELSE 1..(Len(text) + 1)) :
     \E stop \in MatchEnds(pattern.items, 1, text, start) :
        pattern.at_end => stop = Len(text) + 1

cleaner_screenshot_patterns ==
  <<
    Pattern(<<"s","c","r","e","e","n","s","h","o","t","[","-","_","\\","s","]","?","\\","d","*">>, FALSE, FALSE,
      <<Item({"s"}, 1, 1), Item({"c"}, 1, 1), Item({"r"}, 1, 1), Item({"e"}, 1, 1), Item({"e"}, 1, 1), Item({"n"}, 1, 1), Item({"s"}, 1, 1), Item({"h"}, 1, 1), Item({"o"}, 1, 1), Item({"t"}, 1, 1), Item({"-","_"} \cup Whitespace, 0, 1), Item(Digits, 0, -1)>>),
    Pattern(<<"s","c","r","e","e","n","[","-","_","\\","s","]","?","s","h","o","t">>, FALSE, FALSE,
      <<Item({"s"}, 1, 1), Item({"c"}, 1, 1), Item({"r"}, 1, 1), Item({"e"}, 1, 1), Item({"e"}, 1, 1), Item({"n"}, 1, 1), Item({"-","_"} \cup Whitespace, 0, 1), Item({"s"}, 1, 1), Item({"h"}, 1, 1), Item({"o"}, 1, 1), Item({"t"}, 1, 1)>>),
    Pattern(<<"s","c","r","e","e","n","[","-","_","\\","s","]","?","c","a","p","t","u","r","e">>, FALSE, FALSE,
      <<Item({"s"}, 1, 1), Item({"c"}, 1, 1), Item({"r"}, 1, 1), Item({"e"}, 1, 1), Item({"e"}, 1, 1), Item({"n"}, 1, 1), Item({"-","_"} \cup Whitespace, 0, 1), Item({"c"}, 1, 1), Item({"a"}, 1, 1), Item({"p"}, 1, 1), Item({"t"}, 1, 1), Item({"u"}, 1, 1), Item({"r"}, 1, 1), Item({"e"}, 1, 1)>>),
    Pattern(<<"s","c","r","[","-","_","]","?","\\","d","+">>, FALSE, FALSE,
      <<Item({"s"}, 1, 1), Item({"c"}, 1, 1), Item({"r"}, 1, 1), Item({"-","_"}, 0, 1), Item(Digits, 1, -1)>>),
    Pattern(<<"c","a","p","t","u","r","e","[","-","_","]","?","\\","d","*">>, FALSE, FALSE,
      <<Item({"c"}, 1, 1), Item({"a"}, 1, 1), Item({"p"}, 1, 1), Item({"t"}, 1, 1), Item({"u"}, 1, 1), Item({"r"}, 1, 1), Item({"e"}, 1, 1), Item({"-","_"}, 0, 1), Item(Digits, 0, -1)>>),
    Pattern(<<"^","i","m","g","[","-","_","]","?","\\","d","+","[","-","_","]","\\","d","+">>, TRUE, FALSE,
      <<Item({"i"}, 1, 1), Item({"m"}, 1, 1), Item({"g"}, 1, 1), Item({"-","_"}, 0, 1), Item(Digits, 1, -1), Item({"-","_"}, 1, 1), Item(Digits, 1, -1)>>),
    Pattern(<<"^","\\","d","{","4","}","-","\\","d","{","2","}","-","\\","d","{","2","}","[","-","_","]","\\","d","{","2","}","-","\\","d","{","2","}","-","\\","d","{","2","}">>, TRUE, FALSE,
      <<Item(Digits, 4, 4), Item({"-"}, 1, 1), Item(Digits, 2, 2), Item({"-"}, 1, 1), Item(Digits, 2, 2), Item({"-","_"}, 1, 1), Item(Digits, 2, 2), Item({"-"}, 1, 1), Item(Digits, 2, 2), Item({"-"}, 1, 1), Item(Digits, 2, 2)>>),
    Pattern(<<"^","\\","d","{","4","}","-","\\","d","{","2","}","-","\\","d","{","2","}","[","-","_","]","a","t","[","-","_","]","\\","d","{","2","}","\\",".","\\","d","{","2","}","\\",".","\\","d","{","2","}">>, TRUE, FALSE,
      <<Item(Digits, 4, 4), Item({"-"}, 1, 1), Item(Digits, 2, 2), Item({"-"}, 1, 1), Item(Digits, 2, 2), Item({"-","_"}, 1, 1), Item({"a"}, 1, 1), Item({"t"}, 1, 1), Item({"-","_"}, 1, 1), Item(Digits, 2, 2), Item({"."}, 1, 1), Item(Digits, 2, 2), Item({"."}, 1, 1), Item(Digits, 2, 2)>>),
    Pattern(<<"^","p","h","o","t","o","[","-","_","]","?","\\","d","{","4","}","-","\\","d","{","2","}","-","\\","d","{","2","}">>, TRUE, FALSE,
      <<Item({"p"}, 1, 1), Item({"h"}, 1, 1), Item({"o"}, 1, 1), Item({"t"}, 1, 1), Item({"o"}, 1, 1), Item({"-","_"}, 0, 1), Item(Digits, 4, 4), Item({"-"}, 1, 1), Item(Digits, 2, 2), Item({"-"}, 1, 1), Item(Digits, 2, 2)>>),
    Pattern(<<"^","i","m","g","[","-","_","]","?","\\","d","{","8","}","[","-","_","]","\\","d","{","6","}">>, TRUE, FALSE,
      <<Item({"i"}, 1, 1), Item({"m"}, 1, 1), Item({"g"}, 1, 1), Item({"-","_"}, 0, 1), Item(Digits, 8, 8), Item({"-","_"}, 1, 1), Item(Digits, 6, 6)>>),
    Pattern(<<"^","s","i","g","n","a","l","-","\\","d","{","4","}","-","\\","d","{","2","}","-","\\","d","{","2","}">>, TRUE, FALSE,
      <<Item({"s"}, 1, 1), Item({"i"}, 1, 1), Item({"g"}, 1, 1), Item({"n"}, 1, 1), Item({"a"}, 1, 1), Item({"l"}, 1, 1), Item({"-"}, 1, 1), Item(Digits, 4, 4), Item({"-"}, 1, 1), Item(Digits, 2, 2), Item({"-"}, 1, 1), Item(Digits, 2, 2)>>),
    Pattern(<<"^","w","h","a","t","s","a","p","p","[","-","_","]","i","m","a","g","e">>, TRUE, FALSE,
      <<Item({"w"}, 1, 1), Item({"h"}, 1, 1), Item({"a"}, 1, 1), Item({"t"}, 1, 1), Item({"s"}, 1, 1), Item({"a"}, 1, 1), Item({"p"}, 1, 1), Item({"p"}, 1, 1), Item({"-","_"}, 1, 1), Item({"i"}, 1, 1), Item({"m"}, 1, 1), Item({"a"}, 1, 1), Item({"g"}, 1, 1), Item({"e"}, 1, 1)>>),
    Pattern(<<"^","t","e","l","e","g","r","a","m","[","-","_","]","i","m","a","g","e">>, TRUE, FALSE,
      <<Item({"t"}, 1, 1), Item({"e"}, 1, 1), Item({"l"}, 1, 1), Item({"e"}, 1, 1), Item({"g"}, 1, 1), Item({"r"}, 1, 1), Item({"a"}, 1, 1), Item({"m"}, 1, 1), Item({"-","_"}, 1, 1), Item({"i"}, 1, 1), Item({"m"}, 1, 1), Item({"a"}, 1, 1), Item({"g"}, 1, 1), Item({"e"}, 1, 1)>>),
    Pattern(<<"^","p","h","o","t","o","_","\\","d","{","4","}","-","\\","d","{","2","}","-","\\","d","{","2","}">>, TRUE, FALSE,
      <<Item({"p"}, 1, 1), Item({"h"}, 1, 1), Item({"o"}, 1, 1), Item({"t"}, 1, 1), Item({"o"}, 1, 1), Item({"_"}, 1, 1), Item(Digits, 4, 4), Item({"-"}, 1, 1), Item(Digits, 2, 2), Item({"-"}, 1, 1), Item(Digits, 2, 2)>>),
    Pattern(<<"^","p","x","l","_","\\","d","{","8","}","_","\\","d","{","6","}">>, TRUE, FALSE,
      <<Item({"p"}, 1, 1), Item({"x"}, 1, 1), Item({"l"}, 1, 1), Item({"_"}, 1, 1), Item(Digits, 8, 8), Item({"_"}, 1, 1), Item(Digits, 6, 6)>>),
    Pattern(<<"^","s","n","i","p","[","-","_","]","?","\\","d","*">>, TRUE, FALSE,
      <<Item({"s"}, 1, 1), Item({"n"}, 1, 1), Item({"i"}, 1, 1), Item({"p"}, 1, 1), Item({"-","_"}, 0, 1), Item(Digits, 0, -1)>>),
    Pattern(<<"^","g","r","e","e","n","s","h","o","t","[","-","_","]">>, TRUE, FALSE,
      <<Item({"g"}, 1, 1), Item({"r"}, 1, 1), Item({"e"}, 1, 1), Item({"e"}, 1, 1), Item({"n"}, 1, 1), Item({"s"}, 1, 1), Item({"h"}, 1, 1), Item({"o"}, 1, 1), Item({"t"}, 1, 1), Item({"-","_"}, 1, 1)>>),
    Pattern(<<"^","c","a","p","t","u","r","e","\\","d","{","4","}">>, TRUE, FALSE,
      <<Item({"c"}, 1, 1), Item({"a"}, 1, 1), Item({"p"}, 1, 1), Item({"t"}, 1, 1), Item({"u"}, 1, 1), Item({"r"}, 1, 1), Item({"e"}, 1, 1), Item(Digits, 4, 4)>>),
    Pattern(<<"^","c","l","i","p","[","-","_","]","?","\\","d","+">>, TRUE, FALSE,
      <<Item({"c"}, 1, 1), Item({"l"}, 1, 1), Item({"i"}, 1, 1), Item({"p"}, 1, 1), Item({"-","_"}, 0, 1), Item(Digits, 1, -1)>>),
    Pattern(<<"[","-","_","]","s","c","r","e","e","n","s","h","o","t","[","-","_","]">>, FALSE, FALSE,
      <<Item({"-","_"}, 1, 1), Item({"s"}, 1, 1), Item({"c"}, 1, 1), Item({"r"}, 1, 1), Item({"e"}, 1, 1), Item({"e"}, 1, 1), Item({"n"}, 1, 1), Item({"s"}, 1, 1), Item({"h"}, 1, 1), Item({"o"}, 1, 1), Item({"t"}, 1, 1), Item({"-","_"}, 1, 1)>>),
    Pattern(<<"\\",".","s","c","r","e","e","n","s","h","o","t","\\",".">>, FALSE, FALSE,
      <<Item({"."}, 1, 1), Item({"s"}, 1, 1), Item({"c"}, 1, 1), Item({"r"}, 1, 1), Item({"e"}, 1, 1), Item({"e"}, 1, 1), Item({"n"}, 1, 1), Item({"s"}, 1, 1), Item({"h"}, 1, 1), Item({"o"}, 1, 1), Item({"t"}, 1, 1), Item({"."}, 1, 1)>>),
    Pattern(<<"^","s","s","[","-","_","]","?","\\","d","+">>, TRUE, FALSE,
      <<Item({"s"}, 1, 1), Item({"s"}, 1, 1), Item({"-","_"}, 0, 1), Item(Digits, 1, -1)>>),
    Pattern(<<"^","s","n","a","p","[","-","_","]","?","\\","d","+">>, TRUE, FALSE,
      <<Item({"s"}, 1, 1), Item({"n"}, 1, 1), Item({"a"}, 1, 1), Item({"p"}, 1, 1), Item({"-","_"}, 0, 1), Item(Digits, 1, -1)>>),
    Pattern(<<"^","g","r","a","b","[","-","_","]","?","\\","d","+">>, TRUE, FALSE,
      <<Item({"g"}, 1, 1), Item({"r"}, 1, 1), Item({"a"}, 1, 1), Item({"b"}, 1, 1), Item({"-","_"}, 0, 1), Item(Digits, 1, -1)>>)
  >>

web_patterns ==
  <<
    Pattern(<<"\\",".","w","e","b","p","$">>, FALSE, TRUE,
      <<Item({"."}, 1, 1), Item({"w"}, 1, 1), Item({"e"}, 1, 1), Item({"b"}, 1, 1), Item({"p"}, 1, 1)>>),
    Pattern(<<"c","a","c","h","e">>, FALSE, FALSE,
      <<Item({"c"}, 1, 1), Item({"a"}, 1, 1), Item({"c"}, 1, 1), Item({"h"}, 1, 1), Item({"e"}, 1, 1)>>),
    Pattern(<<"t","e","m","p","[","-","_","]">>, FALSE, FALSE,
      <<Item({"t"}, 1, 1), Item({"e"}, 1, 1), Item({"m"}, 1, 1), Item({"p"}, 1, 1), Item({"-","_"}, 1, 1)>>),
    Pattern(<<"t","m","p","[","-","_","]">>, FALSE, FALSE,
      <<Item({"t"}, 1, 1), Item({"m"}, 1, 1), Item({"p"}, 1, 1), Item({"-","_"}, 1, 1)>>),
    Pattern(<<"d","o","w","n","l","o","a","d","[","s","]","?","[","-","_","]","?","\\","d","*">>, FALSE, FALSE,
      <<Item({"d"}, 1, 1), Item({"o"}, 1, 1), Item({"w"}, 1, 1), Item({"n"}, 1, 1), Item({"l"}, 1, 1), Item({"o"}, 1, 1), Item({"a"}, 1, 1), Item({"d"}, 1, 1), Item({"s"}, 0, 1), Item({"-","_"}, 0, 1), Item(Digits, 0, -1)>>),
    Pattern(<<"[","-","_","]","d","o","w","n","l","o","a","d","\\",".">>, FALSE, FALSE,
      <<Item({"-","_"}, 1, 1), Item({"d"}, 1, 1), Item({"o"}, 1, 1), Item({"w"}, 1, 1), Item({"n"}, 1, 1), Item({"l"}, 1, 1), Item({"o"}, 1, 1), Item({"a"}, 1, 1), Item({"d"}, 1, 1), Item({"."}, 1, 1)>>),
    Pattern(<<"f","a","c","e","b","o","o","k","[","-","_","]">>, FALSE, FALSE,
      <<Item({"f"}, 1, 1), Item({"a"}, 1, 1), Item({"c"}, 1, 1), Item({"e"}, 1, 1), Item({"b"}, 1, 1), Item({"o"}, 1, 1), Item({"o"}, 1, 1), Item({"k"}, 1, 1), Item({"-","_"}, 1, 1)>>),
    Pattern(<<"f","b","[","-","_","]","i","m","g">>, FALSE, FALSE,
      <<Item({"f"}, 1, 1), Item({"b"}, 1, 1), Item({"-","_"}, 1, 1), Item({"i"}, 1, 1), Item({"m"}, 1, 1), Item({"g"}, 1, 1)>>),
    Pattern(<<"w","h","a","t","s","a","p","p","[","-","_","]">>, FALSE, FALSE,
      <<Item({"w"}, 1, 1), Item({"h"}, 1, 1), Item({"a"}, 1, 1), Item({"t"}, 1, 1), Item({"s"}, 1, 1), Item({"a"}, 1, 1), Item({"p"}, 1, 1), Item({"p"}, 1, 1), Item({"-","_"}, 1, 1)>>),
    Pattern(<<"i","n","s","t","a","g","r","a","m","[","-","_","]">>, FALSE, FALSE,
      <<Item({"i"}, 1, 1), Item({"n"}, 1, 1), Item({"s"}, 1, 1), Item({"t"}, 1, 1), Item({"a"}, 1, 1), Item({"g"}, 1, 1), Item({"r"}, 1, 1), Item({"a"}, 1, 1), Item({"m"}, 1, 1), Item({"-","_"}, 1, 1)>>),
    Pattern(<<"t","w","i","t","t","e","r","[","-","_","]">>, FALSE, FALSE,
      <<Item({"t"}, 1, 1), Item({"w"}, 1, 1), Item({"i"}, 1, 1), Item({"t"}, 1, 1), Item({"t"}, 1, 1), Item({"e"}, 1, 1), Item({"r"}, 1, 1), Item({"-","_"}, 1, 1)>>),
    Pattern(<<"r","e","d","d","i","t","[","-","_","]">>, FALSE, FALSE,
      <<Item({"r"}, 1, 1), Item({"e"}, 1, 1), Item({"d"}, 1, 1), Item({"d"}, 1, 1), Item({"i"}, 1, 1), Item({"t"}, 1, 1), Item({"-","_"}, 1, 1)>>),
    Pattern(<<"t","u","m","b","l","r","[","-","_","]">>, FALSE, FALSE,
      <<Item({"t"}, 1, 1), Item({"u"}, 1, 1), Item({"m"}, 1, 1), Item({"b"}, 1, 1), Item({"l"}, 1, 1), Item({"r"}, 1, 1), Item({"-","_"}, 1, 1)>>),
    Pattern(<<"p","i","n","t","e","r","e","s","t","[","-","_","]">>, FALSE, FALSE,
      <<Item({"p"}, 1, 1), Item({"i"}, 1, 1), Item({"n"}, 1, 1), Item({"t"}, 1, 1), Item({"e"}, 1, 1), Item({"r"}, 1, 1), Item({"e"}, 1, 1), Item({"s"}, 1, 1), Item({"t"}, 1, 1), Item({"-","_"}, 1, 1)>>),
    Pattern(<<"m","e","s","s","e","n","g","e","r","[","-","_","]">>, FALSE, FALSE,
      <<Item({"m"}, 1, 1), Item({"e"}, 1, 1), Item({"s"}, 1, 1), Item({"s"}, 1, 1), Item({"e"}, 1, 1), Item({"n"}, 1, 1), Item({"g"}, 1, 1), Item({"e"}, 1, 1), Item({"r"}, 1, 1), Item({"-","_"}, 1, 1)>>),
    Pattern(<<"d","i","s","c","o","r","d","[","-","_","]">>, FALSE, FALSE,
      <<Item({"d"}, 1, 1), Item({"i"}, 1, 1), Item({"s"}, 1, 1), Item({"c"}, 1, 1), Item({"o"}, 1, 1), Item({"r"}, 1, 1), Item({"d"}, 1, 1), Item({"-","_"}, 1, 1)>>),
    Pattern(<<"s","l","a","c","k","[","-","_","]">>, FALSE, FALSE,
      <<Item({"s"}, 1, 1), Item({"l"}, 1, 1), Item({"a"}, 1, 1), Item({"c"}, 1, 1), Item({"k"}, 1, 1), Item({"-","_"}, 1, 1)>>)
  >>

recovery_patterns ==
  <<
    Pattern(<<"^","r","e","c","o","v","e","r","e","d","[","-","_","]">>, TRUE, FALSE,
      <<Item({"r"}, 1, 1), Item({"e"}, 1, 1), Item({"c"}, 1, 1), Item({"o"}, 1, 1), Item({"v"}, 1, 1), Item({"e"}, 1, 1), Item({"r"}, 1, 1), Item({"e"}, 1, 1), Item({"d"}, 1, 1), Item({"-","_"}, 1, 1)>>),
    Pattern(<<"^","f","o","u","n","d","\\",".","\\","d","+">>, TRUE, FALSE,
      <<Item({"f"}, 1, 1), Item({"o"}, 1, 1), Item({"u"}, 1, 1), Item({"n"}, 1, 1), Item({"d"}, 1, 1), Item({"."}, 1, 1), Item(Digits, 1, -1)>>),
    Pattern(<<"^","f","i","l","e","\\","d","+">>, TRUE, FALSE,
      <<Item({"f"}, 1, 1), Item({"i"}, 1, 1), Item({"l"}, 1, 1), Item({"e"}, 1, 1), Item(Digits, 1, -1)>>),
    Pattern(<<"^","c","o","p","y","[","-","_","]","?","o","f","[","-","_","]">>, TRUE, FALSE,
      <<Item({"c"}, 1, 1), Item({"o"}, 1, 1), Item({"p"}, 1, 1), Item({"y"}, 1, 1), Item({"-","_"}, 0, 1), Item({"o"}, 1, 1), Item({"f"}, 1, 1), Item({"-","_"}, 1, 1)>>),
    Pattern(<<"\\","(","\\","d","+","\\",")","\\",".">>, FALSE, FALSE,
      <<Item({"("}, 1, 1), Item(Digits, 1, -1), Item({")"}, 1, 1), Item({"."}, 1, 1)>>),
    Pattern(<<"^","d","u","p","l","i","c","a","t","e","[","-","_","]">>, TRUE, FALSE,
      <<Item({"d"}, 1, 1), Item({"u"}, 1, 1), Item({"p"}, 1, 1), Item({"l"}, 1, 1), Item({"i"}, 1, 1), Item({"c"}, 1, 1), Item({"a"}, 1, 1), Item({"t"}, 1, 1), Item({"e"}, 1, 1), Item({"-","_"}, 1, 1)>>),
    Pattern(<<"^","u","n","t","i","t","l","e","d","[","-","_","]","?","\\","d","*">>, TRUE, FALSE,
      <<Item({"u"}, 1, 1), Item({"n"}, 1, 1), Item({"t"}, 1, 1), Item({"i"}, 1, 1), Item({"t"}, 1, 1), Item({"l"}, 1, 1), Item({"e"}, 1, 1), Item({"d"}, 1, 1), Item({"-","_"}, 0, 1), Item(Digits, 0, -1)>>),
    Pattern(<<"^","n","o","n","a","m","e">>, TRUE, FALSE,
      <<Item({"n"}, 1, 1), Item({"o"}, 1, 1), Item({"n"}, 1, 1), Item({"a"}, 1, 1), Item({"m"}, 1, 1), Item({"e"}, 1, 1)>>),
    Pattern(<<"^","i","m","a","g","e","\\","d","+">>, TRUE, FALSE,
      <<Item({"i"}, 1, 1), Item({"m"}, 1, 1), Item({"a"}, 1, 1), Item({"g"}, 1, 1), Item({"e"}, 1, 1), Item(Digits, 1, -1)>>),
    Pattern(<<"^","p","h","o","t","o","\\","d","+">>, TRUE, FALSE,
      <<Item({"p"}, 1, 1), Item({"h"}, 1, 1), Item({"o"}, 1, 1), Item({"t"}, 1, 1), Item({"o"}, 1, 1), Item(Digits, 1, -1)>>),
    Pattern(<<"^","p","i","c","t","u","r","e","\\","d","+">>, TRUE, FALSE,
      <<Item({"p"}, 1, 1), Item({"i"}, 1, 1), Item({"c"}, 1, 1), Item({"t"}, 1, 1), Item({"u"}, 1, 1), Item({"r"}, 1, 1), Item({"e"}, 1, 1), Item(Digits, 1, -1)>>),
    Pattern(<<"^","i","m","g","\\","d","+">>, TRUE, FALSE,
      <<Item({"i"}, 1, 1), Item({"m"}, 1, 1), Item({"g"}, 1, 1), Item(Digits, 1, -1)>>),
    Pattern(<<"^","d","s","c","[","-","_","]","?","\\","d","+">>, TRUE, FALSE,
      <<Item({"d"}, 1, 1), Item({"s"}, 1, 1), Item({"c"}, 1, 1), Item({"-","_"}, 0, 1), Item(Digits, 1, -1)>>),
    Pattern(<<"^","d","c","i","m","[","-","_","]","?","\\","d","+">>, TRUE, FALSE,
      <<Item({"d"}, 1, 1), Item({"c"}, 1, 1), Item({"i"}, 1, 1), Item({"m"}, 1, 1), Item({"-","_"}, 0, 1), Item(Digits, 1, -1)>>),
    Pattern(<<"^","b","u","r","s","t","\\","d","+">>, TRUE, FALSE,
      <<Item({"b"}, 1, 1), Item({"u"}, 1, 1), Item({"r"}, 1, 1), Item({"s"}, 1, 1), Item({"t"}, 1, 1), Item(Digits, 1, -1)>>),
    Pattern(<<"^","i","m","g","_","\\","d","{","4","}","$">>, TRUE, TRUE,
      <<Item({"i"}, 1, 1), Item({"m"}, 1, 1), Item({"g"}, 1, 1), Item({"_"}, 1, 1), Item(Digits, 4, 4)>>)
  >>

\* the first pattern of a list that the filename matches, 0 when none does
first_match(patterns, filename) ==
  FirstIndex({i \in 1..Len(patterns) : re_search(patterns[i], filename)})

\* categorize with the web list tried before the screenshot list
categorize_web_first(filename) ==
  LET shot == first_match(cleaner_screenshot_patterns, filename)
      web == first_match(web_patterns, filename)
      rec == first_match(recovery_patterns, filename)
  IN  IF web # 0
      THEN [category |-> "web_file", reason |-> web_patterns[web].source]
      ELSE IF shot # 0
      THEN [category |-> "screenshot", reason |-> cleaner_screenshot_patterns[shot].source]
      ELSE IF rec # 0
      THEN [category |-> "recovery_artifact", reason |-> recovery_patterns[rec].source]
      ELSE [category |-> "", reason |-> <<>>]

\* analyze_asset, lines 53-100 and 296-490: category and reason, the
\* screenshot list first, then the web list, then the recovery list
categorize(filename) ==
  LET shot == first_match(cleaner_screenshot_patterns, filename)
      web == first_match(web_patterns, filename)
      rec == first_match(recovery_patterns, filename)
  IN  IF shot # 0
      THEN [category |-> "screenshot", reason |-> cleaner_screenshot_patterns[shot].source]
      ELSE IF web # 0
      THEN [category |-> "web_file", reason |-> web_patterns[web].source]
      ELSE IF rec # 0
      THEN [category |-> "recovery_artifact", reason |-> recovery_patterns[rec].source]
      ELSE [category |-> "", reason |-> <<>>]

\* INSERT OR REPLACE INTO cleanup_candidates: the statement names seven
\* columns, marked_for_deletion is not one of them and takes its default 0
save_candidate(table, asset_id, filename, file_size, category, reason) ==
  [id \in DOMAIN table \cup {asset_id} |->
     IF id = asset_id
     THEN [filename |-> filename, file_size |-> file_size, category |-> category,
           detection_reason |-> reason, marked_for_deletion |-> FALSE]
     ELSE table[id]]

\* ImmichCleaner.analyze_asset: the table afterwards and the value returned.
\* A null originalFileName or exifInfo raises inside the try; the except
\* clause returns False.
cleaner_analyze_asset(table, asset) ==
  IF Get(asset.originalFileName, Str(<<>>)).t # "str" \/ asset.exifInfo.t = "none"
  THEN [table |-> table, returned |-> FALSE]
  ELSE LET filename == lower(Get(asset.originalFileName, Str(<<>>)).s)
           file_size == Get(asset.exifInfo.d.fileSizeInByte, Num(0))
           found == categorize(filename)
       IN  IF found.category # ""
           THEN [table |-> save_candidate(table, asset.id, filename, file_size,
                                          found.category, found.reason),
                 returned |-> TRUE]
           ELSE [table |-> table, returned |-> FALSE]

\* UPDATE cleanup_candidates SET marked_for_deletion = ? WHERE id = ?
cleaner_mark_rows(table, asset_ids, mark) ==
  [id \in DOMAIN table |->
     IF \E i \in 1..Len(asset_ids) : asset_ids[i] = id
     THEN [table[id] EXCEPT !.marked_for_deletion = mark]
     ELSE table[id]]

\* remove_rows with a statement that binds the first id only
remove_rows_first_only(table, asset_ids) ==
  [id \in DOMAIN table \ {asset_ids[i] : i \in 1..Min(1, Len(asset_ids))} |-> table[id]]

\* DELETE FROM cleanup_candidates WHERE id IN (?, ..., ?)
remove_rows(table, asset_ids) ==
  [id \in DOMAIN table \ {asset_ids[i] : i \in 1..Len(asset_ids)} |-> table[id]]

\* cleaner_statistics with the web count asked for category 'web_cache'
cleaner_statistics_web_cache(table) ==
  [total_analyzed |-> Cardinality(DOMAIN table),
   screenshots_found |-> Cardinality({id \in DOMAIN table : table[id].category = "screenshot"}),
   web_files_found |-> Cardinality({id \in DOMAIN table : table[id].category = "web_cache"}),
   recovery_artifacts_found |->
      Cardinality({id \in DOMAIN table : table[id].category = "recovery_artifact"}),
   marked_for_deletion |-> Cardinality({id \in DOMAIN table : table[id].marked_for_deletion})]

\* ImmichCleaner.get_statistics: the SELECT COUNT results (total_size_mb is
\* left out)
cleaner_statistics(table) ==
  [total_analyzed |-> Cardinality(DOMAIN table),
   screenshots_found |-> Cardinality({id \in DOMAIN table : table[id].category = "screenshot"}),
   web_files_found |-> Cardinality({id \in DOMAIN table : table[id].category = "web_file"}),
   recovery_artifacts_found |->
      Cardinality({id \in DOMAIN table : table[id].category = "recovery_artifact"}),
   marked_for_deletion |-> Cardinality({id \in DOMAIN table : table[id].marked_for_deletion})]

\* script_rows with a SELECT that has no WHERE clause
script_rows_all(table) == DOMAIN table

\* SELECT id, filename FROM cleanup_candidates WHERE marked_for_deletion = 1
script_rows(table) == {id \in DOMAIN table : table[id].marked_for_deletion}

\* the orders in which fetchall can return a set of rows (the SELECT has no
\* ORDER BY)
RowOrders(ids) ==
  {order \in [1..Cardinality(ids) -> ids] :
     \A i, j \in 1..Cardinality(ids) : order[i] = order[j] => i = j}

\* generate_deletion_script: one curl -X DELETE command per fetched row, with
\* the filename in the comment line before it
deletion_script(table, order) ==
  [i \in 1..Len(order) |-> [delete |-> order[i], comment |-> table[order[i]].filename]]

(***************************************************************************)
(* Calls on an ImmichCleaner object                                        *)
(***************************************************************************)
CleanerIds == {"c1", "c2"}

ShotName == <<"S","c","r","e","e","n","s","h","o","t","_","2","0","2","3",".","p","n","g">>

WhatsappName == <<"w","h","a","t","s","a","p","p","_","i","m","a","g","e","_","1",".","j","p","g">>

CacheName == <<"t","m","p","_","c","a","c","h","e",".","w","e","b","p">>

RecoveredName == <<"r","e","c","o","v","e","r","e","d","_","0","0","1",".","j","p","g">>

PlainName == <<"I","M","G","_","0","0","0","1",".","j","p","g">>

CleanerNames ==
  {Str(ShotName), Str(WhatsappName), Str(CacheName), Str(RecoveredName), Str(PlainName), None}

CleanerExif(t, size) == [d |-> [fileSizeInByte |-> size], t |-> t]

\* the asset dicts handed to analyze_asset
CleanerAssets ==
  {[id |-> id, originalFileName |-> name, exifInfo |-> CleanerExif("dict", Num(2048))] :
      id \in CleanerIds, name \in CleanerNames}
  \cup {[id |-> id, originalFileName |-> Str(ShotName), exifInfo |-> CleanerExif("none", Missing)] :
      id \in CleanerIds}

\* longest id list of a call on the cleaner
MaxCleanerIds == 2

CleanerIdLists == UNION {[1..n -> CleanerIds \cup {"zz"}] : n \in 0..MaxCleanerIds}

Call(op, ids, returned) ==
  [op |-> op, ids |-> ids, returned |-> returned, stats |-> NoStats, asset |-> NoAsset,
   script |-> <<>>]

cleaner_analyze ==
  /\ \E asset \in CleanerAssets :
        LET after == cleaner_analyze_asset(cleanup_candidates, asset)
        IN  /\ cleanup_candidates' = after.table
            /\ cleaner_call' = [Call("analyze", <<asset.id>>, after.returned) EXCEPT
                                   !.asset = asset]
  /\ UNCHANGED <<appVars, classifyVars>>

cleaner_mark_for_deletion ==
  /\ \E asset_ids \in CleanerIdLists, mark \in BOOLEAN :
        /\ cleanup_candidates' = cleaner_mark_rows(cleanup_candidates, asset_ids, mark)
        /\ cleaner_call' = Call(IF mark THEN "mark" ELSE "unmark", asset_ids, TRUE)
  /\ UNCHANGED <<appVars, classifyVars>>

remove_deleted_assets ==
  /\ \E asset_ids \in CleanerIdLists :
        /\ cleanup_candidates' = remove_rows(cleanup_candidates, asset_ids)
        /\ cleaner_call' = Call("remove", asset_ids, TRUE)
  /\ UNCHANGED <<appVars, classifyVars>>

cleaner_get_statistics ==
  /\ cleaner_call' = [Call("statistics", <<>>, TRUE) EXCEPT
                         !.stats = cleaner_statistics(cleanup_candidates)]
  /\ UNCHANGED cleanup_candidates
  /\ UNCHANGED <<appVars, classifyVars>>

generate_deletion_script ==
  /\ \E order \in RowOrders(script_rows(cleanup_candidates)) :
        cleaner_call' = [Call("script", <<>>, TRUE) EXCEPT
                           !.script = deletion_script(cleanup_candidates, order)]
  /\ UNCHANGED cleanup_candidates
  /\ UNCHANGED <<appVars, classifyVars>>

(***************************************************************************)
(* Inputs of the detector                                                  *)
(***************************************************************************)
ClassifyNames == {Missing, None, Str(ScreenshotName), Str(CameraName), Str(WebCacheName)}

ClassifyPaths == {Str(PhotosPath), Str(CachePath), None}

ClassifySizes == {Missing, None, Num(5000), Num(250000), Num(60000000)}

ClassifyExif ==
  {ExifMissing, ExifNone,
   ExifDict(ExifFields(Num(1080), Num(1920), Missing, Missing, Missing, Missing)),
   ExifDict(ExifFields(Num(1920), Num(1080), None, None, Str(Android13), Missing)),
   ExifDict(ExifFields(Num(4032), Num(3024), Str(Apple), Str(IPhone), Str(Ios172), Str(Date2023))),
   ExifDict(ExifFields(Num(120), Num(90), Str(Apple), Missing, Missing, Str(Date2023))),
   ExifDict(ExifFields(Num(4032), Num(3024), Str(Apple), Str(IPhone), None, Str(Date2023)))}

ClassifyCreated == {Missing, Str(Date2023)}

ClassifyFaces == {0, 2}

ClassifyThumbs ==
  {Thumb("download_failed", 0, FALSE), Thumb("raises", 0, FALSE), Thumb("unreadable", 0, FALSE),
   PlainThumb, Thumb("decoded", 25, TRUE)}

ClassifyInputs ==
  {[info |-> AssetInfo(name, path, size, exif, created), faces |-> faces, thumb |-> thumb] :
     name \in ClassifyNames, path \in ClassifyPaths, size \in ClassifySizes,
     exif \in ClassifyExif, created \in ClassifyCreated, faces \in ClassifyFaces,
     thumb \in ClassifyThumbs}

\* one call of UnwantedImageDetector.analyze_image
classify ==
  /\ classify_output = << >>
  /\ classify_output' =
        <<analyze_image("x", classify_input.info, classify_input.faces, classify_input.thumb)>>
  /\ UNCHANGED <<classify_input, confidence_call>>
  /\ UNCHANGED <<appVars, cleanerVars>>

\* most entries of the flags list of a result dict handed to _calculate_confidence
MaxEvidence == 7

ConfidenceSizes == {0, 9999, 10000, 250000, 50000000, 50000001}

\* the result dicts _calculate_confidence is applied to: every combination of
\* the four indicators, a number of flags and a file size
ConfidenceInputs ==
  {[NewResult("x", NoInput.info) EXCEPT
      !.is_screenshot = shot, !.is_web_cache = web, !.is_low_quality = low,
      !.is_corrupt = corrupt, !.file_size = Num(size),
      !.flags = [i \in 1..n |-> Flag("Unwanted keyword", <<>>)]] :
     shot \in BOOLEAN, web \in BOOLEAN, low \in BOOLEAN, corrupt \in BOOLEAN,
     size \in ConfidenceSizes, n \in 0..MaxEvidence}

\* one call of UnwantedImageDetector._calculate_confidence
calculate_confidence ==
  /\ confidence_call.output = << >>
  /\ confidence_call' = [confidence_call EXCEPT
                           !.output = <<_calculate_confidence(confidence_call.input)>>]
  /\ UNCHANGED <<classify_input, classify_output>>
  /\ UNCHANGED <<appVars, cleanerVars>>

(***************************************************************************)
(* Specifications                                                          *)
(***************************************************************************)
\* the service of app.py: the handlers and the worker threads
Init ==
  /\ cleaner_engine = FALSE
  /\ workers = [w \in Workers |-> IdleWorker]
  /\ asset_analysis = << >>
  /\ response = Response("none", 0, 0)
  /\ cleanup_candidates = << >>
  /\ cleaner_call = NoCall
  /\ classify_input = NoInput
  /\ classify_output = << >>
  /\ confidence_call = NoConfidenceCall

Next ==
  \/ config
  \/ start_analysis
  \/ \E asset_ids \in MarkRequests : mark_for_deletion(asset_ids)
  \/ stop_request
  \/ \E w \in Workers : WorkerStep(w)

Spec == Init /\ [][Next]_vars

\* Every thread that exists keeps being scheduled, and each of its network and
\* database calls returns or raises.
LiveSpec == Spec /\ \A w \in Workers : WF_vars(WorkerStep(w))

\* the service against a source that pages by cursor, every metadata fetch and
\* every write succeeding
CursorWorkerStep(w) ==
  \/ run_batch_start(w)
  \/ run_batch_fetch_cursor(w)
  \/ run_batch_check(w)
  \/ run_batch_analyze_ok(w)

CursorNext ==
  \/ config
  \/ start_analysis
  \/ \E w \in Workers : CursorWorkerStep(w)

CursorLiveSpec ==
  Init /\ [][CursorNext]_vars /\ \A w \in Workers : WF_vars(CursorWorkerStep(w))

\* an ImmichCleaner object and its table
CleanerNext ==
  \/ cleaner_analyze
  \/ cleaner_mark_for_deletion
  \/ remove_deleted_assets
  \/ cleaner_get_statistics
  \/ generate_deletion_script

CleanerSpec == Init /\ [][CleanerNext]_vars

\* the detector applied to one input
ClassifyInit ==
  /\ cleaner_engine = FALSE
  /\ workers = [w \in Workers |-> IdleWorker]
  /\ asset_analysis = << >>
  /\ response = Response("none", 0, 0)
  /\ cleanup_candidates = << >>
  /\ cleaner_call = NoCall
  /\ classify_input \in ClassifyInputs
  /\ classify_output = << >>
  /\ confidence_call = NoConfidenceCall

ClassifySpec == ClassifyInit /\ [][classify]_vars

\* _calculate_confidence applied to one result dict
ConfidenceInit ==
  /\ cleaner_engine = FALSE
  /\ workers = [w \in Workers |-> IdleWorker]
  /\ asset_analysis = << >>
  /\ response = Response("none", 0, 0)
  /\ cleanup_candidates = << >>
  /\ cleaner_call = NoCall
  /\ classify_input = NoInput
  /\ classify_output = << >>
  /\ confidence_call \in {ConfidenceCall(result) : result \in ConfidenceInputs}

ConfidenceSpec == ConfidenceInit /\ [][calculate_confidence]_vars

(***************************************************************************)
(* Properties                                                              *)
(***************************************************************************)
Range(seq) == {seq[i] : i \in 1..Len(seq)}

Count(seq, x) == Cardinality({i \in 1..Len(seq) : seq[i] = x})

Completed(w) == workers[w].pc = "done" /\ workers[w].status = "completed"

\* the ids of the listing entries the server has returned to a run that is
\* asking for page worker.page
ListedIds(worker) ==
  {RemoteListing[i].id :
     i \in 1..Min((worker.page - 1) * PageSize, Len(RemoteListing))} \ {""}

\* C1: while a batch run is active a second start request is rejected, so in
\* no reachable state are two batch workers executing at the same time.
C1_SingleWorker == Cardinality({w \in Workers : Active(w)}) <= 1

\* C2: re-analysing an asset id whose stored record has marked_for_deletion
\* set (the upsert of a new verdict for the id) leaves the flag set.
C2_UpsertKeepsMark ==
  [][\A id \in DOMAIN cleanup_candidates :
        (cleanup_candidates[id].marked_for_deletion /\ cleaner_call'.op = "analyze")
        => (id \in DOMAIN cleanup_candidates' /\ cleanup_candidates'[id].marked_for_deletion)]_vars

\* C3: a run that was cancelled while it was processing a page ends with the
\* terminal status 'stopped', not 'completed' and not 'error'.
C3_StopEndsStopped ==
  \A w \in response.mid_page :
     (response.op = "stop" /\ workers[w].pc = "done") => workers[w].status = "stopped"

\* C4: a run in which a listing call failed never reports 'completed'.
C4_FailedListingNotCompleted ==
  \A w \in Workers : workers[w].fetch_failed => workers[w].status # "completed"

C6_StartAfterCompletion ==
  [][(/\ start_analysis
      /\ \E w \in Workers : workers[w].pc = "done"
                            /\ workers[w].status \in {"completed", "stopped"})
     => (/\ response'.code = 200
         /\ \E w \in Workers : workers[w].pc # "spawned" /\ workers'[w].pc = "spawned")]_vars

\* a start request was accepted and its thread spawned beside a completed run
C6_Witness ==
  \E v, w \in Workers :
     /\ Completed(v)
     /\ workers[w].pc = "spawned"
     /\ response = Response("start", 200, 0)

C8_StoredAboveFloor ==
  \A id \in DOMAIN asset_analysis : asset_analysis[id].confidence_score > 40

\* C9: remove raises no error, after remove(ids) none of the ids has a record,
\* and removing ids that have no record changes nothing.
C9_RemoveIdempotent ==
  [][cleaner_call'.op = "remove" =>
       LET ids == Range(cleaner_call'.ids)
       IN  /\ cleaner_call'.returned
           /\ \A id \in ids : id \notin DOMAIN cleanup_candidates'
           /\ (ids \cap DOMAIN cleanup_candidates = {}) => cleanup_candidates' = cleanup_candidates]_vars

\* remove was called with an id that has no record while the table holds rows
C9_Witness ==
  /\ cleaner_call.op = "remove"
  /\ "zz" \in Range(cleaner_call.ids)
  /\ DOMAIN cleanup_candidates # {}

\* C10: analyze_image returns a verdict for every input, never an error in
\* place of the verdict.
C10_AlwaysVerdict == classify_output # << >> => ~classify_output[1].error

\* C11: when fetching the metadata of an asset fails, or the detector fails
\* on it, the step stores nothing for the asset and the run goes on with the
\* next asset of the page, or with the next page after the last asset.
C11_FailedAssetSkipped ==
  [][\A w \in Workers :
       (workers[w].pc = "analyze" /\ workers'[w] # workers[w]) =>
          LET worker == workers[w]
              asset_id == worker.assets[worker.idx].id
              failed == \/ asset_id \in workers'[w].info_failed
                        \/ Verdict[asset_id].error
          IN  failed =>
                /\ asset_analysis' = asset_analysis
                /\ IF worker.idx < Len(worker.assets)
                   THEN /\ workers'[w].pc = "check"
                        /\ workers'[w].idx = worker.idx + 1
                        /\ workers'[w].page = worker.page
                   ELSE /\ workers'[w].pc = "fetch"
                        /\ workers'[w].page = worker.page + 1]_vars

\* a completed run that lost the metadata of a1, stored a2 after it, and got
\* no verdict from the detector for a3
C11_Witness ==
  \E w \in Workers :
     /\ Completed(w)
     /\ "a1" \in workers[w].info_failed
     /\ "a1" \notin DOMAIN asset_analysis
     /\ "a2" \in Range(workers[w].classified) /\ "a2" \in DOMAIN asset_analysis
     /\ "a3" \in Range(workers[w].classified) /\ "a3" \notin DOMAIN asset_analysis

\* C12: the confidence of every verdict analyze_image returns lies in [0, 1]
\* (0..100 in hundredths), whatever the metadata and whichever rules fired.
C12_ConfidenceInUnitInterval ==
  (classify_output # << >> /\ ~classify_output[1].error) =>
     (classify_output[1].confidence_score >= 0 /\ classify_output[1].confidence_score <= 100)

\* a verdict whose indicators add up to more than 1.0 and whose confidence is 1.0
C12_Witness ==
  /\ classify_output # << >>
  /\ ~classify_output[1].error
  /\ classify_output[1].is_screenshot
  /\ classify_output[1].is_web_cache
  /\ classify_output[1].is_low_quality
  /\ Len(classify_output[1].flags) >= 3
  /\ classify_output[1].confidence_score = 100

\* UnwantedImageDetector.screenshot_patterns, each read as the regular
\* expression its raw string spells
screenshot_pattern_regexes ==
  <<
    Pattern(<<"s","c","r","e","e","n","s","h","o","t">>, FALSE, FALSE,
      <<Item({"s"}, 1, 1), Item({"c"}, 1, 1), Item({"r"}, 1, 1), Item({"e"}, 1, 1), Item({"e"}, 1, 1), Item({"n"}, 1, 1), Item({"s"}, 1, 1), Item({"h"}, 1, 1), Item({"o"}, 1, 1), Item({"t"}, 1, 1)>>),
    Pattern(<<"s","c","r","e","e","n","_","s","h","o","t">>, FALSE, FALSE,
      <<Item({"s"}, 1, 1), Item({"c"}, 1, 1), Item({"r"}, 1, 1), Item({"e"}, 1, 1), Item({"e"}, 1, 1), Item({"n"}, 1, 1), Item({"_"}, 1, 1), Item({"s"}, 1, 1), Item({"h"}, 1, 1), Item({"o"}, 1, 1), Item({"t"}, 1, 1)>>),
    Pattern(<<"s","c","r","e","e","n"," ","s","h","o","t">>, FALSE, FALSE,
      <<Item({"s"}, 1, 1), Item({"c"}, 1, 1), Item({"r"}, 1, 1), Item({"e"}, 1, 1), Item({"e"}, 1, 1), Item({"n"}, 1, 1), Item({" "}, 1, 1), Item({"s"}, 1, 1), Item({"h"}, 1, 1), Item({"o"}, 1, 1), Item({"t"}, 1, 1)>>),
    Pattern(<<"c","a","p","t","u","r","e">>, FALSE, FALSE,
      <<Item({"c"}, 1, 1), Item({"a"}, 1, 1), Item({"p"}, 1, 1), Item({"t"}, 1, 1), Item({"u"}, 1, 1), Item({"r"}, 1, 1), Item({"e"}, 1, 1)>>),
    Pattern(<<"s","n","a","p">>, FALSE, FALSE,
      <<Item({"s"}, 1, 1), Item({"n"}, 1, 1), Item({"a"}, 1, 1), Item({"p"}, 1, 1)>>),
    Pattern(<<"i","m","g","_","\\","d","{","4","}">>, FALSE, FALSE,
      <<Item({"i"}, 1, 1), Item({"m"}, 1, 1), Item({"g"}, 1, 1), Item({"_"}, 1, 1), Item(Digits, 4, 4)>>),
    Pattern(<<"i","m","a","g","e","_","\\","d","{","4","}">>, FALSE, FALSE,
      <<Item({"i"}, 1, 1), Item({"m"}, 1, 1), Item({"a"}, 1, 1), Item({"g"}, 1, 1), Item({"e"}, 1, 1), Item({"_"}, 1, 1), Item(Digits, 4, 4)>>),
    Pattern(<<"v","l","c","s","n","a","p">>, FALSE, FALSE,
      <<Item({"v"}, 1, 1), Item({"l"}, 1, 1), Item({"c"}, 1, 1), Item({"s"}, 1, 1), Item({"n"}, 1, 1), Item({"a"}, 1, 1), Item({"p"}, 1, 1)>>),
    Pattern(<<"s","n","a","p","s","h","o","t">>, FALSE, FALSE,
      <<Item({"s"}, 1, 1), Item({"n"}, 1, 1), Item({"a"}, 1, 1), Item({"p"}, 1, 1), Item({"s"}, 1, 1), Item({"h"}, 1, 1), Item({"o"}, 1, 1), Item({"t"}, 1, 1)>>),
    Pattern(<<"s","c","r","e","e","n","s","h","o","t","_","\\","d","{","8","}">>, FALSE, FALSE,
      <<Item({"s"}, 1, 1), Item({"c"}, 1, 1), Item({"r"}, 1, 1), Item({"e"}, 1, 1), Item({"e"}, 1, 1), Item({"n"}, 1, 1), Item({"s"}, 1, 1), Item({"h"}, 1, 1), Item({"o"}, 1, 1), Item({"t"}, 1, 1), Item({"_"}, 1, 1), Item(Digits, 8, 8)>>),
    Pattern(<<"s","c","r","e","e","n","_","\\","d","{","8","}">>, FALSE, FALSE,
      <<Item({"s"}, 1, 1), Item({"c"}, 1, 1), Item({"r"}, 1, 1), Item({"e"}, 1, 1), Item({"e"}, 1, 1), Item({"n"}, 1, 1), Item({"_"}, 1, 1), Item(Digits, 8, 8)>>),
    Pattern(<<"c","a","p","t","u","r","e","_","\\","d","{","8","}">>, FALSE, FALSE,
      <<Item({"c"}, 1, 1), Item({"a"}, 1, 1), Item({"p"}, 1, 1), Item({"t"}, 1, 1), Item({"u"}, 1, 1), Item({"r"}, 1, 1), Item({"e"}, 1, 1), Item({"_"}, 1, 1), Item(Digits, 8, 8)>>),
    Pattern(<<"c","l","i","p","b","o","a","r","d">>, FALSE, FALSE,
      <<Item({"c"}, 1, 1), Item({"l"}, 1, 1), Item({"i"}, 1, 1), Item({"p"}, 1, 1), Item({"b"}, 1, 1), Item({"o"}, 1, 1), Item({"a"}, 1, 1), Item({"r"}, 1, 1), Item({"d"}, 1, 1)>>),
    Pattern(<<"p","r","t","s","c","r">>, FALSE, FALSE,
      <<Item({"p"}, 1, 1), Item({"r"}, 1, 1), Item({"t"}, 1, 1), Item({"s"}, 1, 1), Item({"c"}, 1, 1), Item({"r"}, 1, 1)>>),
    Pattern(<<"s","n","i","p">>, FALSE, FALSE,
      <<Item({"s"}, 1, 1), Item({"n"}, 1, 1), Item({"i"}, 1, 1), Item({"p"}, 1, 1)>>),
    Pattern(<<"w","e","b","p","a","g","e">>, FALSE, FALSE,
      <<Item({"w"}, 1, 1), Item({"e"}, 1, 1), Item({"b"}, 1, 1), Item({"p"}, 1, 1), Item({"a"}, 1, 1), Item({"g"}, 1, 1), Item({"e"}, 1, 1)>>),
    Pattern(<<"b","r","o","w","s","e","r">>, FALSE, FALSE,
      <<Item({"b"}, 1, 1), Item({"r"}, 1, 1), Item({"o"}, 1, 1), Item({"w"}, 1, 1), Item({"s"}, 1, 1), Item({"e"}, 1, 1), Item({"r"}, 1, 1)>>),
    Pattern(<<"t","a","b","_">>, FALSE, FALSE,
      <<Item({"t"}, 1, 1), Item({"a"}, 1, 1), Item({"b"}, 1, 1), Item({"_"}, 1, 1)>>),
    Pattern(<<"w","i","n","d","o","w","_">>, FALSE, FALSE,
      <<Item({"w"}, 1, 1), Item({"i"}, 1, 1), Item({"n"}, 1, 1), Item({"d"}, 1, 1), Item({"o"}, 1, 1), Item({"w"}, 1, 1), Item({"_"}, 1, 1)>>)
  >>

\* C13: when the (lower-cased) filename matches a configured screenshot
\* pattern, the verdict of analyze_image has is_screenshot set and its flags
\* name a pattern the filename matches.
C13_ScreenshotPatternClassified ==
  (/\ classify_output # << >>
   /\ ~classify_output[1].error
   /\ classify_input.info.originalFileName.t = "str") =>
     LET filename == lower(classify_input.info.originalFileName.s)
         matching == {i \in 1..Len(screenshot_pattern_regexes) :
                         re_search(screenshot_pattern_regexes[i], filename)}
         flags == classify_output[1].flags
     IN  matching # {} =>
           /\ classify_output[1].is_screenshot
           /\ \E k \in 1..Len(flags) :
                 /\ flags[k].flag = "Screenshot pattern"
                 /\ \E i \in matching : flags[k].info = screenshot_pattern_regexes[i].source

\* C14: for an asset with a filename whose width x height (as exifInfo gives
\* them) equals a configured screenshot resolution, analyze_image returns a
\* verdict with is_screenshot set.
C14_ResolutionFlagsScreenshot ==
  (/\ classify_output # << >>
   /\ classify_input.info.originalFileName.t = "str"
   /\ classify_input.info.exifInfo.t = "dict") =>
     LET exif_info == classify_input.info.exifInfo.d
         width == Or(GetOrNone(exif_info.imageWidth), GetOrNone(exif_info.exifImageWidth))
         height == Or(GetOrNone(exif_info.imageHeight), GetOrNone(exif_info.exifImageHeight))
     IN  (/\ width.t = "int"
          /\ height.t = "int"
          /\ <<width.n, height.n>> \in screenshot_resolutions) =>
            (~classify_output[1].error /\ classify_output[1].is_screenshot)

\* C15: the asset named "Screenshot_20230101-120000.png" with width 1080 and
\* height 1920 gets a verdict with is_screenshot set, confidence >= 0.8, a
\* filename-pattern flag and a resolution flag.
C15_ScreenshotExample ==
  (/\ classify_output # << >>
   /\ classify_input.info.originalFileName = Str(ScreenshotName)
   /\ classify_input.info.exifInfo.t = "dict"
   /\ classify_input.info.exifInfo.d.imageWidth = Num(1080)
   /\ classify_input.info.exifInfo.d.imageHeight = Num(1920)) =>
     LET flags == classify_output[1].flags
     IN  /\ ~classify_output[1].error
         /\ classify_output[1].is_screenshot
         /\ classify_output[1].confidence_score >= 80
         /\ \E k \in 1..Len(flags) : flags[k].flag = "Screenshot pattern"
         /\ \E k \in 1..Len(flags) : flags[k].flag = "Screenshot resolution"

\* the stored candidates of one category
InCategory(category) ==
  {id \in DOMAIN cleanup_candidates : cleanup_candidates[id].category = category}

\* C16: the statistics report a total equal to the number of stored records
\* and, per category, a count equal to the number of stored records of that
\* category; as every stored candidate has one of the three categories the
\* counts add up to the total.
C16_StatisticsMatchStore ==
  cleaner_call.op = "statistics" =>
     LET stats == cleaner_call.stats
     IN  /\ stats.total_analyzed = Cardinality(DOMAIN cleanup_candidates)
         /\ stats.screenshots_found = Cardinality(InCategory("screenshot"))
         /\ stats.web_files_found = Cardinality(InCategory("web_file"))
         /\ stats.recovery_artifacts_found = Cardinality(InCategory("recovery_artifact"))
         /\ stats.total_analyzed = stats.screenshots_found + stats.web_files_found
                                   + stats.recovery_artifacts_found

\* the statistics of a store that holds one screenshot and one web file
C16_Witness ==
  /\ cleaner_call.op = "statistics"
  /\ Cardinality(InCategory("screenshot")) = 1
  /\ Cardinality(InCategory("web_file")) = 1
  /\ cleaner_call.stats.total_analyzed = 2
  /\ cleaner_call.stats.screenshots_found = 1
  /\ cleaner_call.stats.web_files_found = 1

\* C17: a start request while no engine is configured is answered 400 (not
\* configured) and starts no worker.
C17_StartNeedsEngine ==
  [][(start_analysis /\ ~cleaner_engine)
     => (response' = Response("start", 400, 0) /\ workers' = workers)]_vars

\* a start request was refused: no engine, no worker
C17_Witness ==
  /\ ~cleaner_engine
  /\ response = Response("start", 400, 0)
  /\ \A w \in Workers : workers[w].pc = "idle"

\* C18: the run follows the continuation the source supplies and ends once
\* the source has no further page: against a source with a finite listing,
\* every listing call is eventually followed by the end of the run.
C18_FiniteListingTerminates ==
  \A w \in Workers : (workers[w].pc = "fetch") ~> (workers[w].pc = "done")

\* C19: a mark set on an existing record survives the batch worker: no write
\* of a worker that is analysing an asset clears the mark of a record.
C19_WorkerKeepsMark ==
  [][(\E w \in Workers : workers[w].pc = "analyze" /\ workers'[w] # workers[w]) =>
       \A id \in DOMAIN asset_analysis :
          asset_analysis[id].marked_for_deletion =>
             (id \in DOMAIN asset_analysis' /\ asset_analysis'[id].marked_for_deletion)]_vars

\* C20: a run neither re-classifies nor overwrites a record that is stored
\* with status 'analyzed' when the run reaches its asset: the step that finds
\* the record skips the asset and leaves the table unchanged.
C20_AnalyzedRecordSkipped ==
  [][\A w \in Workers :
       (workers[w].pc = "check" /\ workers'[w] # workers[w]) =>
          LET worker == workers[w]
              asset_id == worker.assets[worker.idx].id
          IN  (/\ asset_id \in DOMAIN asset_analysis
               /\ asset_analysis[asset_id].status = "analyzed") =>
                /\ asset_analysis' = asset_analysis
                /\ workers'[w].pc # "analyze"
                /\ workers'[w].due = worker.due
                /\ workers'[w].classified = worker.classified
                /\ workers'[w].total_processed = worker.total_processed]_vars

\* a completed run that was served a1 and skipped it: a1 is stored, marked
\* for deletion, and was not due in the run
C20_Witness ==
  \E w \in Workers :
     /\ Completed(w)
     /\ "a1" \in ListedIds(workers[w])
     /\ "a1" \notin Range(workers[w].due)
     /\ "a1" \in DOMAIN asset_analysis
     /\ asset_analysis["a1"].marked_for_deletion

\* the verdict of the one call of analyze_image, when it returned one
HasVerdict == classify_output # << >> /\ ~classify_output[1].error

\* the flags the inspections before the thumbnail step give a screenshot
MetadataScreenshotFlags ==
  {"Screenshot pattern", "Screenshot resolution", "Screenshot software"}

\* C21 as claimed: the thumbnail inspection is entered only for an asset
\* without reported faces that is under the size ceiling.
C21_ThumbnailOnlyWithoutFaces ==
  (HasVerdict /\ classify_output[1].inspected_thumbnail) =>
     /\ ~classify_output[1].has_faces
     /\ classify_output[1].file_size.n < ImageAnalysisCeiling

\* C21 as amended: the thumbnail inspection is entered only for an asset
\* under the size ceiling that has no reported faces or on which a screenshot
\* or web-cache indicator of the metadata inspections has fired.
C21_ThumbnailOnlyWhenNeeded ==
  (HasVerdict /\ classify_output[1].inspected_thumbnail) =>
     LET verdict == classify_output[1]
     IN  /\ verdict.file_size.n < ImageAnalysisCeiling
         /\ \/ classify_input.faces = 0
            \/ verdict.is_web_cache
            \/ \E k \in 1..Len(verdict.flags) : verdict.flags[k].flag \in MetadataScreenshotFlags

\* the thumbnail of an asset with reported faces was inspected
C21_Witness ==
  /\ HasVerdict
  /\ classify_output[1].inspected_thumbnail
  /\ classify_output[1].has_faces
  /\ classify_output[1].is_screenshot

\* C22: of two assets whose metadata and thumbnail are identical except that
\* faces are reported for one of them, the one with faces never gets the
\* higher confidence.
C22_FacesNeverRaiseConfidence ==
  (HasVerdict /\ classify_input.faces > 0) =>
     LET without_faces == analyze_image("x", classify_input.info, 0, classify_input.thumb)
     IN  classify_output[1].confidence_score <= without_faces.confidence_score

\* C23: the confidence _calculate_confidence stores is the sum of the weights
\* of the indicators that are set (screenshot 0.4, web cache 0.3, low quality
\* 0.2, corrupt 0.5), plus min(0.05 x number of flags, 0.3), plus the
\* file-size bonus (0.1 under 10 kB, 0.05 over 50 MB), clamped to 1.0.
C23_ConfidenceIsClampedSum ==
  confidence_call.output # << >> =>
     LET result == confidence_call.input
         screenshot == IF result.is_screenshot THEN 40 ELSE 0
         web_cache == IF result.is_web_cache THEN 30 ELSE 0
         low_quality == IF result.is_low_quality THEN 20 ELSE 0
         corrupt == IF result.is_corrupt THEN 50 ELSE 0
         evidence == IF Len(result.flags) >= 6 THEN 30 ELSE 5 * Len(result.flags)
         size == CASE result.file_size.n < 10000 -> 10
                   [] result.file_size.n > 50000000 -> 5
                   [] OTHER -> 0
         sum == screenshot + web_cache + low_quality + corrupt + evidence + size
     IN  confidence_call.output[1].confidence_score = IF sum > 100 THEN 100 ELSE sum

\* a dict with more than six flags whose sum exceeds 1.0, and its confidence
C23_Witness ==
  /\ confidence_call.output # << >>
  /\ confidence_call.input.is_screenshot
  /\ confidence_call.input.is_corrupt
  /\ ~confidence_call.input.is_web_cache
  /\ Len(confidence_call.input.flags) > 6
  /\ confidence_call.input.file_size.n > LargeFileSize
  /\ confidence_call.output[1].confidence_score = 100

\* the patterns of a list that a filename matches, by position
Matching(patterns, filename) ==
  {i \in 1..Len(patterns) : re_search(patterns[i], filename)}

\* the source text of the first pattern of a list among the matching ones
FirstSource(patterns, matching) ==
  patterns[CHOOSE i \in matching : \A j \in matching : i <= j].source

\* C24: analyze_asset of the cleaner stores an asset under exactly one
\* category: screenshot when a screenshot pattern matches the filename, else
\* web file when a web pattern matches, else recovery artifact when a recovery
\* pattern matches, with the first matching pattern of that family as the
\* reason; an asset no pattern matches is not stored by the call.
C24_FamiliesByPriority ==
  (/\ cleaner_call.op = "analyze"
   /\ cleaner_call.asset.originalFileName.t = "str"
   /\ cleaner_call.asset.exifInfo.t = "dict") =>
     LET filename == lower(cleaner_call.asset.originalFileName.s)
         shots == Matching(cleaner_screenshot_patterns, filename)
         webs == Matching(web_patterns, filename)
         recs == Matching(recovery_patterns, filename)
         id == cleaner_call.asset.id
     IN  IF shots = {} /\ webs = {} /\ recs = {}
         THEN ~cleaner_call.returned
         ELSE /\ cleaner_call.returned
              /\ id \in DOMAIN cleanup_candidates
              /\ cleanup_candidates[id].category =
                    (IF shots # {} THEN "screenshot"
                     ELSE IF webs # {} THEN "web_file"
                     ELSE "recovery_artifact")
              /\ cleanup_candidates[id].detection_reason =
                    (IF shots # {} THEN FirstSource(cleaner_screenshot_patterns, shots)
                     ELSE IF webs # {} THEN FirstSource(web_patterns, webs)
                     ELSE FirstSource(recovery_patterns, recs))

\* a name that a screenshot pattern and a web pattern match was stored as a
\* screenshot
C24_Witness ==
  /\ cleaner_call.op = "analyze"
  /\ cleaner_call.asset.originalFileName = Str(WhatsappName)
  /\ Matching(web_patterns, lower(WhatsappName)) # {}
  /\ cleaner_call.asset.id \in DOMAIN cleanup_candidates
  /\ cleanup_candidates[cleaner_call.asset.id].category = "screenshot"

\* C25: a failed write of an asset's verdict does not end the run.  A step
\* that classified an asset, got a verdict and left the table without a row
\* for it persisted nothing, and the worker goes on with the next asset of the
\* page, or the next page; every worker that is analysing an asset reaches
\* the end of its run.
C25_WriteFailureNotFatal ==
  /\ [][\A w \in Workers :
          (workers[w].pc = "analyze" /\ workers'[w] # workers[w]) =>
             LET worker == workers[w]
                 asset_id == worker.assets[worker.idx].id
                 write_failed == /\ workers'[w].classified = Append(worker.classified, asset_id)
                                 /\ ~Verdict[asset_id].error
                                 /\ asset_id \notin DOMAIN asset_analysis'
             IN  write_failed =>
                   /\ asset_analysis' = asset_analysis
                   /\ workers'[w].status = worker.status
                   /\ workers'[w].total_processed = worker.total_processed + 1
                   /\ IF worker.idx < Len(worker.assets)
                      THEN /\ workers'[w].pc = "check"
                           /\ workers'[w].idx = worker.idx + 1
                           /\ workers'[w].page = worker.page
                      ELSE /\ workers'[w].pc = "fetch"
                           /\ workers'[w].page = worker.page + 1]_vars
  /\ \A w \in Workers :
        (workers[w].pc = "analyze") ~>
           (workers[w].pc = "done" /\ workers[w].status \in {"completed", "error"})

\* a completed run that classified a1, whose write failed, and then a2, whose
\* verdict is stored
C25_Witness ==
  \E w \in Workers :
     /\ Completed(w)
     /\ workers[w].classified = <<"a1", "a2", "a3">>
     /\ ~Verdict["a1"].error
     /\ "a1" \notin DOMAIN asset_analysis
     /\ "a2" \in DOMAIN asset_analysis

\* C26: the events of one run are ordered.  The analysis_status event
\* 'starting' is the first event of a run; a progress event (one per counted
\* asset) is emitted only after it and before the terminal event; a run ends
\* with exactly one terminal event, 'completed' (with total_processed) or
\* 'error', and emits nothing after it.
C26_EventOrder ==
  [][\A w \in Workers :
       LET before == workers[w]
           after == workers'[w]
       IN  \/ after = before
           \/ after = [IdleWorker EXCEPT !.pc = "spawned"] /\ ~Active(w)
           \/ /\ before.pc # "done"
              /\ \/ after.status = before.status
                 \/ before.pc = "spawned" /\ before.status = "none" /\ after.status = "starting"
                 \/ before.status = "starting" /\ after.status \in {"completed", "error"}
              /\ \/ after.total_processed = before.total_processed
                 \/ /\ after.total_processed = before.total_processed + 1
                    /\ before.status = "starting" /\ after.status = "starting"
              /\ after.pc = "done" <=> after.status \in {"completed", "error"}
              /\ after.status = "none" => after.total_processed = 0]_vars

\* a run that emitted 'starting', three progress events and 'completed'
C26_Witness ==
  \E w \in Workers : Completed(w) /\ workers[w].total_processed = 3

\* C27: a configuration request with an invalid or unreachable address or
\* with invalid credentials reports an error and leaves a system that was not
\* configured without an engine (so that a start request is still rejected).
C27_InvalidConfigRejected ==
  [][(/\ ~cleaner_engine
      /\ \E request \in ConfigRequests \ {"valid"} : config_request(request))
     => (response'.code = 400 /\ ~cleaner_engine')]_vars

\* C28: the count a mark request returns is the number of stored records the
\* request marked; an id without a record is not counted, and the request
\* creates no record.
C28_MarkCountsMarkedRecords ==
  [][\A asset_ids \in MarkRequests :
       (cleaner_engine /\ mark_for_deletion(asset_ids)) =>
          /\ DOMAIN asset_analysis' = DOMAIN asset_analysis
          /\ response'.count =
                Cardinality({id \in DOMAIN asset_analysis' :
                               /\ id \in Range(asset_ids)
                               /\ asset_analysis'[id].marked_for_deletion})]_vars

\* C29: an analysis that returned an error (the metadata fetch failed or the
\* detector raised) stores no record, and a run that reaches a listed asset
\* without a record does not skip it: the asset becomes due and is attempted.
\* An asset the detector always fails on therefore never has a record, and
\* every completed run that listed it has attempted it.
C29_FailedAssetRetried ==
  /\ [][\A w \in Workers :
          (workers[w].pc \in {"check", "analyze"} /\ workers'[w] # workers[w]) =>
             LET worker == workers[w]
                 asset_id == worker.assets[worker.idx].id
             IN  /\ (/\ worker.pc = "analyze"
                     /\ \/ asset_id \in workers'[w].info_failed
                        \/ Verdict[asset_id].error)
                    => asset_analysis' = asset_analysis
                 /\ (/\ worker.pc = "check"
                     /\ asset_id # ""
                     /\ asset_id \notin DOMAIN asset_analysis)
                    => (/\ workers'[w].pc = "analyze"
                        /\ workers'[w].due = Append(worker.due, asset_id))]_vars
  /\ [](\A id \in AssetIds :
          Verdict[id].error =>
             /\ id \notin DOMAIN asset_analysis
             /\ \A w \in Workers :
                   (Completed(w) /\ id \in ListedIds(workers[w])) => id \in Range(workers[w].due))

\* a run has completed without the metadata of a1 and has left no record of
\* it; another run, at its first asset, has found a1 due and is analysing it
C29_Witness ==
  \E v, w \in Workers :
     /\ Completed(v)
     /\ "a1" \in workers[v].info_failed
     /\ "a1" \notin DOMAIN asset_analysis
     /\ workers[w].pc = "analyze"
     /\ workers[w].due = <<"a1">>
     /\ workers[w].total_processed = 0

\* C30: the deletion script holds one delete command for every stored record
\* that is marked for deletion when the script is generated, and none for any
\* other id: not for an unmarked record and not for a removed one.
C30_ScriptDeletesMarkedOnly ==
  cleaner_call.op = "script" =>
     \A id \in CleanerIds \cup {"zz"} :
        Cardinality({i \in 1..Len(cleaner_call.script) : cleaner_call.script[i].delete = id})
          = IF id \in DOMAIN cleanup_candidates /\ cleanup_candidates[id].marked_for_deletion
            THEN 1 ELSE 0

\* a script for a store with one marked and one unmarked record
C30_Witness ==
  /\ cleaner_call.op = "script"
  /\ Len(cleaner_call.script) = 1
  /\ Cardinality(DOMAIN cleanup_candidates) = 2

====
